---- MODULE Spec2Model ----
(***************************************************************************)
(* A model of the sales-ranking report scripts: ranking_vendas.py,          *)
(* relatorio_analitico_vendas.py and ranking_chart_kgs.py.                  *)
(*                                                                          *)
(* Python values are tagged records:                                        *)
(*   [t |-> "none"]               None                                      *)
(*   [t |-> "nan"]                float('nan') / NaT                        *)
(*   [t |-> "float", n, d]        a number, the exact rational n/d, d > 0,  *)
(*                                in lowest terms                           *)
(*   [t |-> "str", s]             a string, s the sequence of its           *)
(*                                characters                                *)
(* Floating-point rounding is not modelled: arithmetic is exact.            *)
(***************************************************************************)
EXTENDS Integers, Sequences, FiniteSets, TLC

VARIABLES
    value,            \* clean_currency: the argument of the call
    ret,              \* clean_currency: the value returned
    stdout,           \* the diagnostics clean_currency printed
    pc,               \* position of the running script
    sheet,            \* the rows of the Excel sheet
    items_per_page,   \* the page size
    script,           \* the script whose report ran
    metric_name,      \* the metric of the report
    df,               \* the rows kept after filtering
    df_combined,      \* the kept rows with their identity and label
    aggregated,       \* the total-by-identity table, in groupby order
    sorted_df,        \* the ranked table
    total_metric,     \* the total of the title page
    time_series_agg,  \* the weekly table
    pages,            \* the chunks of the content pages
    raised,           \* whether the report ended in its except clause
    final_df,         \* the table of the consolidated spreadsheet
    pie_data,         \* the general report's data of each metric's chart
    charts,           \* what the second axes of each content page shows
    titles,           \* the positions a-b in the title of each content page
    report,           \* position in the run sequence of ranking_vendas
    output_path,      \* the local output_path of the running report function
    temp_path,        \* the local temp_path of the running report function
    files,            \* what the final and the temporary path of each report hold
    attempted,        \* the reports whose function was called
    escaped,          \* the exception that left a report function, if any
    columns,          \* the column names of the sheet's header row
    exception,        \* str(e) of the exception on its way to the except clause
    history,          \* the tables of the calls of the metric loop so far
    build             \* which of its possible outcomes a call has in this process

currency_vars == <<value, ret>>
report_vars == <<sheet, items_per_page, script, metric_name, df, df_combined, aggregated,
                 sorted_df, total_metric, time_series_agg, pages, raised, final_df,
                 pie_data, charts, titles>>
run_vars == <<report, output_path, temp_path, files, attempted, escaped, columns,
              exception>>
loop_vars == <<history, build>>
vars == <<value, ret, stdout, pc, sheet, items_per_page, script, metric_name,
          df, df_combined, aggregated, sorted_df, total_metric, time_series_agg, pages,
          raised, final_df, pie_data, charts, titles, report, output_path, temp_path,
          files,
          attempted, escaped, columns, exception, history, build>>

---------------------------------------------------------------------------
(* Numbers *)

Abs(i) == IF i < 0 THEN -i ELSE i

RECURSIVE Gcd(_, _)
Gcd(a, b) == IF b = 0 THEN a ELSE Gcd(b, a % b)

RECURSIVE Pow10(_)
Pow10(k) == IF k = 0 THEN 1 ELSE 10 * Pow10(k - 1)

None == [t |-> "none"]
NaN == [t |-> "nan"]

\* the float n/d (d > 0), in lowest terms
Float(n, d) ==
    LET g == Gcd(Abs(n), d)
    IN  [t |-> "float", n |-> n \div g, d |-> d \div g]

Str(s) == [t |-> "str", s |-> s]

IsFloat(v) == v.t = "float"
isna(v) == v.t \in {"none", "nan"}
notna(v) == ~isna(v)

FAbs(x) == Float(Abs(x.n), x.d)
FNeg(x) == Float(-x.n, x.d)
FAdd(x, y) == Float(x.n * y.d + y.n * x.d, x.d * y.d)
FMul(x, y) == Float(x.n * y.n, x.d * y.d)
\* x / y for y # 0
FDiv(x, y) == IF y.n > 0 THEN Float(x.n * y.d, x.d * y.n)
                         ELSE Float(-(x.n * y.d), x.d * (-y.n))
FLe(x, y) == x.n * y.d <= y.n * x.d
FLt(x, y) == x.n * y.d < y.n * x.d
Zero == Float(0, 1)

---------------------------------------------------------------------------
(* Strings: sequences of one-character strings *)

Digit == {"0", "1", "2", "3", "4", "5", "6", "7", "8", "9"}

DigitVal(c) ==
    CASE c = "0" -> 0 [] c = "1" -> 1 [] c = "2" -> 2 [] c = "3" -> 3
      [] c = "4" -> 4 [] c = "5" -> 5 [] c = "6" -> 6 [] c = "7" -> 7
      [] c = "8" -> 8 [] c = "9" -> 9

Contains(s, c) == \E i \in 1..Len(s) : s[i] = c

\* s.replace(c, '') for a single character c
RECURSIVE RemoveChar(_, _)
RemoveChar(s, c) ==
    IF s = <<>> THEN <<>>
    ELSE IF Head(s) = c THEN RemoveChar(Tail(s), c)
    ELSE <<Head(s)>> \o RemoveChar(Tail(s), c)

\* s.replace(c, r) for single characters c and r
ReplaceChar(s, c, r) == [i \in 1..Len(s) |-> IF s[i] = c THEN r ELSE s[i]]

\* s.replace('R$', '')
RECURSIVE RemoveRS(_)
RemoveRS(s) ==
    IF Len(s) >= 2 /\ s[1] = "R" /\ s[2] = "$" THEN RemoveRS(SubSeq(s, 3, Len(s)))
    ELSE IF s = <<>> THEN <<>>
    ELSE <<Head(s)>> \o RemoveRS(Tail(s))

\* s.strip(): the only whitespace of the alphabet is the blank
RECURSIVE LStrip(_)
LStrip(s) == IF s # <<>> /\ Head(s) = " " THEN LStrip(Tail(s)) ELSE s

RECURSIVE RStrip(_)
RStrip(s) ==
    IF s # <<>> /\ s[Len(s)] = " " THEN RStrip(SubSeq(s, 1, Len(s) - 1)) ELSE s

Strip(s) == RStrip(LStrip(s))

startswith(s, c) == s # <<>> /\ s[1] = c
endswith(s, c) == s # <<>> /\ s[Len(s)] = c

\* re.sub(r'[^\d,-.]', '', s): the class keeps digits and the range ','..'.',
\* which is exactly ',', '-' and '.'
RECURSIVE ReSubKeep(_)
ReSubKeep(s) ==
    IF s = <<>> THEN <<>>
    ELSE IF Head(s) \in Digit \cup {",", "-", "."}
         THEN <<Head(s)>> \o ReSubKeep(Tail(s))
         ELSE ReSubKeep(Tail(s))

\* len(s.split(c)[-1]): the length of what follows the last c
RECURSIVE LastPartLen(_, _)
LastPartLen(s, c) ==
    IF s = <<>> \/ s[Len(s)] = c THEN 0
    ELSE 1 + LastPartLen(SubSeq(s, 1, Len(s) - 1), c)

\* the number a string of digits denotes
RECURSIVE DigitsVal(_)
DigitsVal(s) ==
    IF s = <<>> THEN 0
    ELSE 10 * DigitsVal(SubSeq(s, 1, Len(s) - 1)) + DigitVal(s[Len(s)])

AllDigits(s) == \A i \in 1..Len(s) : s[i] \in Digit

ValueError == [t |-> "ValueError"]

\* float(s) for a string over digits, '-' and '.': [-] digits [. digits] or
\* [-] . digits; anything else raises ValueError
PyFloat(s) ==
    LET neg == startswith(s, "-")
        body == IF neg THEN Tail(s) ELSE s
        dots == {i \in 1..Len(body) : body[i] = "."}
        ip == IF dots = {} THEN body
              ELSE SubSeq(body, 1, (CHOOSE i \in dots : TRUE) - 1)
        fp == IF dots = {} THEN <<>>
              ELSE SubSeq(body, (CHOOSE i \in dots : TRUE) + 1, Len(body))
        ok == /\ Cardinality(dots) <= 1
              /\ AllDigits(ip) /\ AllDigits(fp)
              /\ Len(ip) + Len(fp) >= 1
        mag == DigitsVal(ip \o fp)
    IN  IF ~ok THEN ValueError
        ELSE Float(IF neg THEN -mag ELSE mag, Pow10(Len(fp)))

---------------------------------------------------------------------------
(* clean_currency, ranking_vendas.py lines 39-90 *)

\* the text after value.replace('R$', '').strip()
cc_stripped(s) == Strip(RemoveRS(s))

\* a sign test that overlooks the parenthesis notation
cc_negative_minus_only(v) == startswith(v, "-")

\* the flag `negative`; `and` binds tighter than `or`
cc_negative(v) ==
    \/ startswith(v, "-")
    \/ Contains(v, "(")
    \/ Contains(v, ")")
    \/ (startswith(v, "(") /\ endswith(v, ")"))

\* `cleaned` after the regular expression, the removal of parentheses and
\* the removal of every '-' when one stands after the first character
cc_unsigned(v) ==
    LET c1 == RemoveChar(RemoveChar(ReSubKeep(v), "("), ")")
    IN  IF c1 # <<>> /\ Contains(Tail(c1), "-") THEN RemoveChar(c1, "-") ELSE c1

\* `cleaned` after the choice of the decimal separator
cc_separators(c) ==
    IF Contains(c, ",") /\ Contains(c, ".")
    THEN ReplaceChar(RemoveChar(c, "."), ",", ".")
    ELSE IF Contains(c, ",")
    THEN IF LastPartLen(c, ",") = 2
         THEN ReplaceChar(RemoveChar(c, "."), ",", ".")
         ELSE ReplaceChar(c, ",", ".")
    ELSE c

cc_cleaned(s) == cc_separators(cc_unsigned(cc_stripped(s)))

\* -abs(num) if negative else abs(num)
cc_sign(num, negative) == IF negative THEN FNeg(FAbs(num)) ELSE FAbs(num)

clean_currency_zero(v) ==
    IF isna(v) THEN v
    ELSE IF v.t = "float" THEN v
    ELSE IF v.t = "str"
    THEN LET num == PyFloat(cc_cleaned(v.s))
         IN  IF num = ValueError THEN Zero
             ELSE cc_sign(num, cc_negative(cc_stripped(v.s)))
    ELSE v

\* the value clean_currency returns
clean_currency(v) ==
    IF isna(v) THEN v
    ELSE IF v.t = "float" THEN v
    ELSE IF v.t = "str"
    THEN LET num == PyFloat(cc_cleaned(v.s))
         IN  IF num = ValueError THEN None
             ELSE cc_sign(num, cc_negative(cc_stripped(v.s)))
    ELSE v

clean_currency_silent(v) == <<>>

\* the lines clean_currency prints: "Valor não convertido: {original}"

clean_currency_print(v) ==
    IF notna(v) /\ v.t = "str" /\ PyFloat(cc_cleaned(v.s)) = ValueError
    THEN << <<"Valor não convertido: ", v.s>> >>
    ELSE <<>>

---------------------------------------------------------------------------
(* Table cells.  Strings the scripts only compare and sort (descriptions,
   group names, product codes in string form) are atoms, [t |-> "text", a];
   StringOrder lists the atoms of the model in Python's code-point order,
   the order in which groupby sorts its keys.  A product code is
   [t |-> "int", i]; a date is [t |-> "date", day], day 0 being a Monday. *)

Text(a) == [t |-> "text", a |-> a]
PyInt(i) == [t |-> "int", i |-> i]
Date(k) == [t |-> "date", day |-> k]
NaT == NaN

StringOrder ==
    << "1924",
       "7777",
       "8006",
       "A",
       "ACEM",
       "ALCATRA C/ MAMINHA",
       "B",
       "BACON MANTA",
       "BANHA SUINA",
       "BARRIGA",
       "BATATA",
       "BOLACHA",
       "BOLINHO",
       "BUCHO",
       "CARNE SALGADA",
       "CARNE TEMPERADA",
       "CARRE",
       "CONTRA FILÉ",
       "CORAÇÃO DE ALCATRA",
       "COSTELA BOV",
       "COSTELA MINGA",
       "COSTELA SALGADA",
       "COSTELA SUINA CONGELADA",
       "COXA C/ SOBRECOXA",
       "COXINHA DA ASA",
       "COXÃO DURO",
       "COXÃO MOLE",
       "CUPIM A",
       "CUPIM B",
       "FIGADO",
       "FILÉ DE PEITO DE FRANGO",
       "FILÉ MIGNON",
       "FRALDA",
       "GRUPO",
       "HAMBURGUER",
       "HOT POCKET",
       "JERKED",
       "LAGARTO",
       "LASANHA",
       "LINGUIÇA CALABRESA AURORA",
       "LINGUIÇA CALABRESA PAMPLONA",
       "LINGUIÇA CALABRESA SADIA",
       "LOMBO SALGADO",
       "LÍNGUA SALGADA",
       "MARGARINA DORIANA COM SAL",
       "MARGARINA QUALLY COM SAL",
       "MASC. ORELHA SALGADA",
       "MEIO DA ASA",
       "MINI CHICKEN",
       "MINI LASANHA",
       "MOCOTÓ",
       "MUSSARELA",
       "NUGGETS",
       "PALETA",
       "PATINHO",
       "PEITO BOV",
       "PERNIL SUINO C/OSSO C/PELE",
       "PICANHA B",
       "PIZZA",
       "PONTA SALGADA",
       "PURURUCA 1KG",
       "PURURUCA 60G",
       "PÉ SALGADO",
       "RABO BOV",
       "RABO SUINO SALGADA",
       "SALAME UAI",
       "SALSICHA",
       "STEAK FGO",
       "TAPIOCA DA TERRINHA",
       "YOPRO" >>

StrRank(a) == CHOOSE i \in 1..Len(StringOrder) : StringOrder[i] = a

\* str(row['CODPRODUTO']) for the product codes of the model
PyStr(code) ==
    CASE code.i = 1924 -> Text("1924")
      [] code.i = 8006 -> Text("8006")
      [] code.i = 7777 -> Text("7777")

\* r with the column f set to v
With(r, f, v) == [k \in DOMAIN r \cup {f} |-> IF k = f THEN v ELSE r[k]]

\* the column f of a frame, as a sequence
Column(frame, f) == [i \in 1..Len(frame) |-> frame[i][f]]

\* Series.sum(): missing values are skipped
RECURSIVE FSum(_)
FSum(s) ==
    IF s = <<>> THEN Zero
    ELSE IF isna(Head(s)) THEN FSum(Tail(s))
    ELSE FAdd(Head(s), FSum(Tail(s)))

\* Series.count(): the number of values that are not missing
count(s) == Cardinality({i \in 1..Len(s) : notna(s[i])})

\* the position of a key cell in the sort order of its column
CellRank(c) ==
    CASE c.t = "int" -> c.i
      [] c.t = "text" -> StrRank(c.a)
      [] c.t = "date" -> c.day

\* lexicographic order of group keys of one or two cells
KeyLe(x, y) ==
    \/ CellRank(x[1]) < CellRank(y[1])
    \/ /\ CellRank(x[1]) = CellRank(y[1])
       /\ (Len(x) = 1 \/ CellRank(x[2]) <= CellRank(y[2]))

RECURSIVE KeysInOrder(_)
KeysInOrder(S) ==
    IF S = {} THEN <<>>
    ELSE LET k == CHOOSE x \in S : \A y \in S : KeyLe(x, y)
         IN  <<k>> \o KeysInOrder(S \ {k})

\* df.groupby(by), with the defaults sort=True and dropna=True: the keys in
\* ascending order, each with its rows; a row with a missing key cell is in
\* no group
groupby(frame, by) ==
    LET key(r) == [c \in 1..Len(by) |-> r[by[c]]]
        whole(r) == \A c \in 1..Len(by) : notna(r[by[c]])
        keys == KeysInOrder({key(frame[i]) : i \in {j \in 1..Len(frame) : whole(frame[j])}})
    IN  [g \in 1..Len(keys) |->
            [key |-> keys[g],
             rows |-> SelectSeq(frame, LAMBDA r : key(r) = keys[g])]]

\* df.sort_values(by, ascending=False) on a column without missing values.
\* The default kind is 'quicksort', which is not stable: every descending
\* arrangement of the rows is a possible result.
\* Any row with the largest value comes first, then any descending
\* arrangement of the other rows.
RECURSIVE sort_values(_, _)
sort_values(frame, by) ==
    IF frame = <<>> THEN {<<>>}
    ELSE LET n == Len(frame)
             largest == {i \in 1..n : \A j \in 1..n : FLe(frame[j][by], frame[i][by])}
             without(i) == SubSeq(frame, 1, i - 1) \o SubSeq(frame, i + 1, n)
         IN  UNION {{<<frame[i]>> \o s : s \in sort_values(without(i), by)} :
                       i \in largest}

insert_Posicao_from_zero(frame) ==
    [k \in 1..Len(frame) |-> With(frame[k], "Posicao", k - 1)]

\* sorted_df.insert(0, 'Posição', range(1, len(sorted_df) + 1))
insert_Posicao(frame) == [k \in 1..Len(frame) |-> With(frame[k], "Posicao", k)]

page_loop_single_page(frame, per_page) == IF frame = <<>> THEN <<>> ELSE <<frame>>

\* the chunks sorted_df.iloc[i:i+items_per_page] of
\* for i in range(0, len(sorted_df), items_per_page)
RECURSIVE page_loop(_, _)
page_loop(frame, per_page) ==
    IF frame = <<>> THEN <<>>
    ELSE IF Len(frame) <= per_page THEN <<frame>>
    ELSE <<SubSeq(frame, 1, per_page)>>
            \o page_loop(SubSeq(frame, per_page + 1, Len(frame)), per_page)

\* the values of i in for i in range(0, n, step)
range(n, step) == [p \in 1..((n + step - 1) \div step) |-> (p - 1) * step]

Min(a, b) == IF a <= b THEN a ELSE b

suptitle_unclipped(i, per_page, n) == [a |-> i + 1, b |-> i + per_page]

\* the positions a-b of f'Ranking de Produtos {i+1}-{min(i+items_per_page, len(sorted_df))}'
suptitle(i, per_page, n) == [a |-> i + 1, b |-> Min(i + per_page, n)]

\* the titles of the content pages of the page loop
page_titles(frame, per_page) ==
    [p \in 1..Len(range(Len(frame), per_page)) |->
        suptitle(range(Len(frame), per_page)[p], per_page, Len(frame))]

\* a week key that is the Sunday before the week
SEMANA_from_sunday(d) == IF isna(d) THEN NaT ELSE Date(d.day - ((d.day + 1) % 7))

\* time_series['DATA'].dt.to_period('W').dt.start_time: the Monday of the
\* week (Monday to Sunday) of the date
SEMANA(d) == IF isna(d) THEN NaT ELSE Date(d.day - (d.day % 7))

---------------------------------------------------------------------------
(* The product groups of ranking_vendas.generate_report, lines 112-191 *)

\* a table in which one code is listed by two groups
product_groups_overlapping ==
    << [name |-> "ACEM", codes |-> <<1924, 8006>>],
       [name |-> "ALCATRA C/ MAMINHA", codes |-> <<8001, 1924>>] >>

product_groups ==
    <<  [name |-> "ACEM",
          codes |-> <<1924, 8006, 1940, 1878, 8101, 1841>>],
        [name |-> "ALCATRA C/ MAMINHA",
          codes |-> <<8001, 1836, 1965, 1800>>],
        [name |-> "BARRIGA",
          codes |-> <<1833, 1639, 1544, 1674, 1863, 1845, 1385, 1898, 1913,
                      1513, 1444, 1434, 1960, 1954, 5200>>],
        [name |-> "BUCHO",
          codes |-> <<1567, 1816, 1856, 1480, 1527, 1903, 1855, 1958>>],
        [name |-> "BACON MANTA",
          codes |-> <<869, 981>>],
        [name |-> "BANHA SUINA",
          codes |-> <<1605, 1139>>],
        [name |-> "BATATA",
          codes |-> <<1767, 1872>>],
        [name |-> "BOLACHA",
          codes |-> <<1649, 1644, 1643, 1647, 1645, 1648>>],
        [name |-> "BOLINHO",
          codes |-> <<1709, 1707, 1708, 1941, 1999>>],
        [name |-> "CARNE SALGADA",
          codes |-> <<1428, 845, 809, 1452>>],
        [name |-> "CARNE TEMPERADA",
          codes |-> <<1720, 1623, 1618>>],
        [name |-> "CARRE",
          codes |-> <<1568, 1355, 1443, 1817, 1464, 1640, 1533, 1286, 1518,
                      1653, 1216, 1316, 906, 1210, 1908, 1221, 1177, 1612,
                      1634, 917, 1689, 1511, 1955>>],
        [name |-> "CONTRA FILÉ",
          codes |-> <<1901, 1922, 1840, 1947, 1894, 1899, 1905, 1503, 1824>>],
        [name |-> "CORAÇÃO DE ALCATRA",
          codes |-> <<1830, 1939>>],
        [name |-> "COSTELA BOV",
          codes |-> <<1768, 1825, 1931, 1814, 1890>>],
        [name |-> "COSTELA MINGA",
          codes |-> <<1973, 1982>>],
        [name |-> "COSTELA SUINA CONGELADA",
          codes |-> <<1478, 1595, 1506, 1081, 1592, 1412, 1641, 1888, 1522,
                      1638, 1607, 1517, 1461, 1416, 1760, 1877, 1664, 1053,
                      1314, 1617, 1599, 1896, 1857, 1179, 1324, 1529, 1421,
                      1323, 1879, 1052, 1051, 1354, 905, 1384, 1086, 1174,
                      1150, 1758, 1320, 1829, 1665, 1327, 1442, 1431, 1704,
                      1736, 1445, 1321, 1884, 1535, 8007>>],
        [name |-> "COSTELA SALGADA",
          codes |-> <<1446, 755, 848, 1433, 1095>>],
        [name |-> "COXA C/ SOBRECOXA",
          codes |-> <<1519, 1956>>],
        [name |-> "COXÃO DURO",
          codes |-> <<1920, 8003, 1803, 1949, 1795>>],
        [name |-> "COXÃO MOLE",
          codes |-> <<1831, 8002, 1948, 1976, 1375>>],
        [name |-> "COXINHA DA ASA",
          codes |-> <<1604, 1546, 8005>>],
        [name |-> "CUPIM A",
          codes |-> <<1772>>],
        [name |-> "CUPIM B",
          codes |-> <<1804, 1456, 1926, 1984>>],
        [name |-> "FIGADO",
          codes |-> <<1808, 1455, 1818, 1910, 1823, 1537, 1505, 1408, 1373,
                      1458, 1508, 1525, 1454, 1801, 1528, 1530, 1502, 1945,
                      1967, 1998, 1978, 1983, 2018>>],
        [name |-> "FILÉ DE PEITO DE FRANGO",
          codes |-> <<1632, 1386, 1935>>],
        [name |-> "FILÉ MIGNON",
          codes |-> <<1812, 1919>>],
        [name |-> "FRALDA",
          codes |-> <<1797, 1925>>],
        [name |-> "HAMBURGUER",
          codes |-> <<1009, 1866, 1010>>],
        [name |-> "HOT POCKET",
          codes |-> <<1987>>],
        [name |-> "JERKED",
          codes |-> <<1893, 1943, 1880, 1886, 1851>>],
        [name |-> "LAGARTO",
          codes |-> <<1849, 1396, 1895, 1813>>],
        [name |-> "LASANHA",
          codes |-> <<1003, 1691, 1997, 1002, 1991>>],
        [name |-> "LINGUIÇA CALABRESA AURORA",
          codes |-> <<788, 1974>>],
        [name |-> "LINGUIÇA CALABRESA SADIA",
          codes |-> <<1339, 807, 1848, 1847>>],
        [name |-> "LINGUIÇA CALABRESA PAMPLONA",
          codes |-> <<9165, 910>>],
        [name |-> "LÍNGUA SALGADA",
          codes |-> <<817, 849, 1430>>],
        [name |-> "LOMBO SALGADO",
          codes |-> <<846, 878, 1432, 1451>>],
        [name |-> "MASC. ORELHA SALGADA",
          codes |-> <<1426, 1447, 850, 746>>],
        [name |-> "MARGARINA DORIANA COM SAL",
          codes |-> <<1161, 1981>>],
        [name |-> "MARGARINA QUALLY COM SAL",
          codes |-> <<826, 811>>],
        [name |-> "MEIO DA ASA",
          codes |-> <<2311, 1937>>],
        [name |-> "MINI CHICKEN",
          codes |-> <<1024, 1994>>],
        [name |-> "MINI LASANHA",
          codes |-> <<1992, 1985>>],
        [name |-> "MOCOTÓ",
          codes |-> <<1539, 1460, 1342, 1540, 1675, 1850, 1827, 1821, 1853,
                      1407, 1723, 1585, 1407, 1723, 1585, 1843, 1584, 762,
                      1534, 1883, 1509, 1601, 1962>>],
        [name |-> "MUSSARELA",
          codes |-> <<2000, 947, 1807, 1914>>],
        [name |-> "NUGGETS",
          codes |-> <<1007, 1995>>],
        [name |-> "PATINHO",
          codes |-> <<1805, 1874, 8000, 1938, 9166, 1966>>],
        [name |-> "PALETA",
          codes |-> <<1953, 1964, 1923, 1975>>],
        [name |-> "PÉ SALGADO",
          codes |-> <<1427, 836, 852, 1450>>],
        [name |-> "PEITO BOV",
          codes |-> <<1815, 1875, 1789, 1952>>],
        [name |-> "PERNIL SUINO C/OSSO C/PELE",
          codes |-> <<1942, 1635, 1724, 1570, 1756>>],
        [name |-> "PICANHA B",
          codes |-> <<1946, 1950>>],
        [name |-> "PIZZA",
          codes |-> <<1989, 1990>>],
        [name |-> "PONTA SALGADA",
          codes |-> <<1425, 750>>],
        [name |-> "PURURUCA 60G",
          codes |-> <<1288, 1289, 1287>>],
        [name |-> "PURURUCA 1KG",
          codes |-> <<1265, 812>>],
        [name |-> "RABO BOV",
          codes |-> <<1828, 1839, 1876, 1861, 1116, 1705, 1531, 1906, 1826,
                      1911, 1882, 1571, 1335, 1963, 1909, 1473>>],
        [name |-> "RABO SUINO SALGADA",
          codes |-> <<851, 1429, 748, 1449>>],
        [name |-> "SALAME UAI",
          codes |-> <<1495, 1500, 1496, 1497, 1498, 1499>>],
        [name |-> "SALSICHA",
          codes |-> <<759, 1189, 816, 1162>>],
        [name |-> "STEAK FGO",
          codes |-> <<1718, 1996>>],
        [name |-> "TAPIOCA DA TERRINHA",
          codes |-> <<1929, 1930>>],
        [name |-> "YOPRO",
          codes |-> <<1698, 1701, 1587, 1700, 86754, 1586, 9675>>] >>

\* the codes some group lists
GroupCodes(groups) ==
    UNION {{groups[i].codes[j] : j \in 1..Len(groups[i].codes)} :
             i \in 1..Len(groups)}

Lists(group, code) == \E j \in 1..Len(group.codes) : group.codes[j] = code

\* the inverse dictionary: the loop assigns code_to_group[code] for every
\* group in turn, so the last group that lists a code is the one kept
InvertGroups(groups) ==
    [code \in GroupCodes(groups) |->
        groups[CHOOSE i \in 1..Len(groups) :
                  /\ Lists(groups[i], code)
                  /\ \A k \in (i + 1)..Len(groups) : ~Lists(groups[k], code)].name]

code_to_group == InvertGroups(product_groups)

\* df['CODPRODUTO'].map(code_to_group)
map_code_to_group(code) ==
    IF code.i \in DOMAIN code_to_group THEN Text(code_to_group[code.i]) ELSE NaN

---------------------------------------------------------------------------
(* ranking_vendas.generate_report, lines 108-384: from the sheet to the
   ranked pages *)

Metrics == {"Tonelagem", "Faturamento", "Margem"}

\* the columns f of a row
Project(r, cols) == [k \in cols |-> r[k]]

\* lines 200-207: the six columns read, with the column GRUPO
gr_read(rows0) ==
    [i \in 1..Len(rows0) |->
        With(Project(rows0[i], {"CODPRODUTO", "DESCRICAO", "DATA", "QTDE_REAL",
                                "Fat_Liquido", "Lucro_Prej"}),
             "GRUPO", map_code_to_group(rows0[i].CODPRODUTO))]

\* lines 218-223
gr_metric_column(metric) ==
    CASE metric = "Tonelagem" -> "QTDE_REAL"
      [] metric = "Faturamento" -> "Fat_Liquido"
      [] metric = "Margem" -> "Margem_Calculada"

\* ETAPA 1, lines 233-237
gr_etapa1(frame, metric) ==
    IF metric \in {"Faturamento", "Margem"}
    THEN SelectSeq(
            [i \in 1..Len(frame) |->
                [frame[i] EXCEPT !.Fat_Liquido = clean_currency(@),
                              !.Lucro_Prej = clean_currency(@)]],
            LAMBDA r : notna(r.Fat_Liquido) /\ notna(r.Lucro_Prej))
    ELSE frame

\* np.where(fat <= 0, 0, (lucro / fat) * 100)
margem_where(lucro, fat) ==
    IF FLe(fat, Zero) THEN Zero ELSE FMul(FDiv(lucro, fat), Float(100, 1))

\* ETAPA 2, lines 240-251
gr_etapa2(frame, metric) ==
    CASE metric = "Tonelagem" ->
            SelectSeq(frame, LAMBDA r : notna(r.QTDE_REAL))
      [] metric = "Faturamento" ->
            SelectSeq(frame, LAMBDA r : notna(r.Fat_Liquido))
      [] metric = "Margem" ->
            SelectSeq(
                [i \in 1..Len(frame) |->
                    With(frame[i], "Margem_Calculada",
                         margem_where(frame[i].Lucro_Prej, frame[i].Fat_Liquido))],
                LAMBDA r : notna(r.Margem_Calculada))

\* lines 258-261
ID_AGRUPADO_description(row) == IF notna(row.GRUPO) THEN row.GRUPO ELSE row.DESCRICAO

ID_AGRUPADO(row) == IF notna(row.GRUPO) THEN row.GRUPO ELSE PyStr(row.CODPRODUTO)

\* lines 264-267
DESCRICAO_AGRUPADA(row) == IF notna(row.GRUPO) THEN row.GRUPO ELSE row.DESCRICAO

\* lines 255-267
gr_combined(frame) ==
    [i \in 1..Len(frame) |->
        With(With(frame[i], "ID_AGRUPADO", ID_AGRUPADO(frame[i])),
             "DESCRICAO_AGRUPADA", DESCRICAO_AGRUPADA(frame[i]))]

\* the key of the groups of the total-by-identity table
gr_group_by == <<"ID_AGRUPADO", "DESCRICAO_AGRUPADA">>

GroupNames == {product_groups[i].name : i \in 1..Len(product_groups)}

\* ETAPA 3, lines 270-318: one entry per group of rows
gr_entry(g, metric) ==
    LET lucro == FSum(Column(g.rows, "Lucro_Prej"))
        fat == FSum(Column(g.rows, "Fat_Liquido"))
    IN  [GRUPO_ID |-> g.key[1],
         DESCRICAO |-> g.key[2],
         Qtde_de_vendas |-> count(Column(g.rows, "DATA")),
         CODPRODUTO |-> IF g.key[1].a \in GroupNames THEN Text("GRUPO") ELSE g.key[1],
         metric |-> CASE metric = "Tonelagem" -> FSum(Column(g.rows, "QTDE_REAL"))
                      [] metric = "Faturamento" -> fat
                      [] metric = "Margem" -> margem_where(lucro, fat)]

gr_aggregated(combined, metric) ==
    LET groups == groupby(combined, gr_group_by)
    IN  [g \in 1..Len(groups) |-> gr_entry(groups[g], metric)]

\* lines 325-332
gr_total_metric(frame, metric) ==
    CASE metric = "Tonelagem" -> FSum(Column(frame, "QTDE_REAL"))
      [] metric = "Faturamento" -> FSum(Column(frame, "Fat_Liquido"))
      [] metric = "Margem" ->
            LET total_lucro == FSum(Column(frame, "Lucro_Prej"))
                total_fat == FSum(Column(frame, "Fat_Liquido"))
            IN  IF FLe(total_fat, Zero) THEN Zero
                ELSE FMul(FDiv(total_lucro, total_fat), Float(100, 1))

\* ETAPA 4, lines 343-361
gr_time_series_agg(combined, metric) ==
    LET time_series == [i \in 1..Len(combined) |->
                           With(combined[i], "SEMANA", SEMANA(combined[i].DATA))]
        groups == groupby(time_series, <<"ID_AGRUPADO", "SEMANA">>)
    IN  [g \in 1..Len(groups) |->
            LET lucro == FSum(Column(groups[g].rows, "Lucro_Prej"))
                fat == FSum(Column(groups[g].rows, "Fat_Liquido"))
            IN  [ID_AGRUPADO |-> groups[g].key[1],
                 SEMANA |-> groups[g].key[2],
                 metric |-> CASE metric = "Tonelagem" ->
                                    FSum(Column(groups[g].rows, "QTDE_REAL"))
                              [] metric = "Faturamento" -> fat
                              [] metric = "Margem" -> margem_where(lucro, fat)]]

\* lines 428-437: the second axes of a content page
gr_ax2(chunk) ==
    IF \E k \in 1..Len(chunk) : FLt(chunk[k].metric, Zero)
    THEN "Gráfico não disponível:\nvalores negativos presentes"
    ELSE IF FLe(FSum(Column(chunk, "metric")), Zero)
    THEN "Dados insuficientes\npara o gráfico"
    ELSE "pie"

\* what a report leaves when an exception ends it before the tables exist
Raised ==
    [raised |-> TRUE, df |-> <<>>, df_combined |-> <<>>, aggregated |-> <<>>, sorted_df |-> <<>>,
     total_metric |-> NaN, time_series_agg |-> <<>>, pages |-> <<>>]

\* the tables of generate_report, for every order the sort may produce
gr_tables(frame, metric, per_page) ==
    LET combined == gr_combined(frame)
        agg == gr_aggregated(combined, metric)
    IN  {[raised |-> FALSE,
          df |-> frame,
          df_combined |-> combined,
          aggregated |-> agg,
          sorted_df |-> insert_Posicao(s),
          total_metric |-> gr_total_metric(frame, metric),
          time_series_agg |-> gr_time_series_agg(combined, metric),
          pages |-> page_loop(insert_Posicao(s), per_page)] :
            s \in sort_values(agg, "metric")}

\* The outcomes of generate_report.  df['DATA'].iloc[0] raises IndexError on
\* an empty sheet.  When no row is left after ETAPA 2, DataFrame.apply with
\* axis=1 runs on an empty frame: depending on the pandas version it returns
\* an empty Series (the report goes on with empty tables) or a frame, whose
\* assignment to one column raises ValueError.
generate_report(rows0, metric, per_page) ==
    LET frame == gr_etapa2(gr_etapa1(gr_read(rows0), metric), metric)
    IN  IF rows0 = <<>> THEN {Raised}
        ELSE IF frame = <<>> THEN {Raised} \cup gr_tables(frame, metric, per_page)
        ELSE gr_tables(frame, metric, per_page)

---------------------------------------------------------------------------
(* relatorio_analitico_vendas.generate_report, lines 108-213 *)

\* the column of each entry of `metrics`, lines 616-620
ra_metric_column(metric) ==
    CASE metric = "Tonelagem" -> "QTDE_REAL"
      [] metric = "Faturamento" -> "Fat_Liquido"
      [] metric = "Margem" -> "Margem"

\* lines 112-113
ra_read(rows0, metric_column) ==
    [i \in 1..Len(rows0) |->
        Project(rows0[i], {"CODPRODUTO", "DESCRICAO", "DATA", metric_column})]

\* ETAPA 1 and 2, lines 134-139
ra_filter(frame, metric_column) ==
    LET cleaned == IF metric_column = "Fat_Liquido"
                   THEN [i \in 1..Len(frame) |->
                            [frame[i] EXCEPT ![metric_column] = clean_currency(@)]]
                   ELSE frame
    IN  SelectSeq(cleaned, LAMBDA r : notna(r[metric_column]))

\* lines 142-150
ra_total_metric(frame, metric, metric_column) ==
    IF metric = "Margem"
    THEN FMul(FSum(Column(frame, metric_column)), Float(100, 1))
    ELSE FSum(Column(frame, metric_column))

\* lines 161-176: the sum of the column per product code
ra_grouped(frame, metric, metric_column) ==
    LET groups == groupby(frame, <<"CODPRODUTO">>)
    IN  [g \in 1..Len(groups) |->
            LET total == FSum(Column(groups[g].rows, metric_column))
            IN  [CODPRODUTO |-> groups[g].key[1],
                 metric |-> IF metric = "Margem"
                            THEN FMul(total, Float(100, 1)) ELSE total]]

\* line 179: the description of the first row of each code once the rows are
\* sorted by date, latest first, missing dates last; the sort is not stable,
\* so among the rows of the latest date any may come first
ra_latest(frame, code) ==
    LET mine == {i \in 1..Len(frame) : frame[i].CODPRODUTO = code}
        dated == {i \in mine : notna(frame[i].DATA)}
        first == IF dated = {} THEN mine
                 ELSE {i \in dated : \A j \in dated : frame[j].DATA.day <= frame[i].DATA.day}
    IN  {frame[i].DESCRICAO : i \in first}

\* line 180: pd.merge(grouped, latest_descriptions, how='left')
ra_merged(grouped, frame) ==
    {[g \in 1..Len(grouped) |-> With(grouped[g], "DESCRICAO", pick[g])] :
        pick \in {p \in [1..Len(grouped) ->
                           {frame[i].DESCRICAO : i \in 1..Len(frame)}] :
                    \A g \in 1..Len(grouped) :
                        p[g] \in ra_latest(frame, grouped[g].CODPRODUTO)}}

\* lines 193-195
ra_time_series(frame, metric_column) ==
    LET time_series == [i \in 1..Len(frame) |->
                           With(frame[i], "SEMANA", SEMANA(frame[i].DATA))]
        groups == groupby(time_series, <<"CODPRODUTO", "SEMANA">>)
    IN  [g \in 1..Len(groups) |->
            [CODPRODUTO |-> groups[g].key[1],
             SEMANA |-> groups[g].key[2],
             metric |-> FSum(Column(groups[g].rows, metric_column))]]

\* relatorio_analitico_vendas.py lines 257-266: the second axes of a page
ra_ax2(chunk) ==
    IF \E k \in 1..Len(chunk) : FLt(chunk[k].metric, Zero)
    THEN "Gráfico não disponível:\nvalores negativos presentes"
    ELSE IF FLe(FSum(Column(chunk, "metric")), Zero)
    THEN "Dados insuficientes\npara o gráfico"
    ELSE "pie"

\* the outcomes of the report; df['DATA'].iloc[0] raises IndexError on an
\* empty sheet
analitico_generate_report(rows0, metric, per_page) ==
    LET metric_column == ra_metric_column(metric)
        frame == ra_filter(ra_read(rows0, metric_column), metric_column)
        grouped == ra_grouped(frame, metric, metric_column)
    IN  IF rows0 = <<>> THEN {Raised}
        ELSE UNION {
               {[raised |-> FALSE,
                 df |-> frame,
                 df_combined |-> frame,
                 aggregated |-> merged,
                 sorted_df |-> insert_Posicao(s),
                 total_metric |-> ra_total_metric(frame, metric, metric_column),
                 time_series_agg |-> ra_time_series(frame, metric_column),
                 pages |-> page_loop(insert_Posicao(s), per_page)] :
                    s \in sort_values(merged, "metric")} :
               merged \in ra_merged(grouped, frame)}

---------------------------------------------------------------------------
(* ranking_chart_kgs.py, lines 42-63 *)

\* items_per_page, ranking_chart_kgs.py line 26
ITEMS_PER_PAGE_KGS == 10

\* Series.round(3): to the nearest thousandth, halves to the even neighbour
round3(x) ==
    LET scaled == x.n * 1000
        q == scaled \div x.d
        r == scaled % x.d
        up == \/ 2 * r > x.d
              \/ (2 * r = x.d /\ q % 2 = 1)
    IN  Float(IF up THEN q + 1 ELSE q, 1000)

\* lines 42-44: a comparison with a missing value is false
kgs_filter(rows0) ==
    SelectSeq(
        [i \in 1..Len(rows0) |->
            Project(rows0[i], {"CODPRODUTO", "DESCRICAO", "QTDE_REAL", "DATA"})],
        LAMBDA r : notna(r.QTDE_REAL) /\ FLe(Zero, r.QTDE_REAL))

\* lines 50-51
kgs_grouped(frame) ==
    LET groups == groupby(frame, <<"CODPRODUTO", "DESCRICAO">>)
    IN  [g \in 1..Len(groups) |->
            [CODPRODUTO |-> groups[g].key[1],
             DESCRICAO |-> groups[g].key[2],
             metric |-> round3(FSum(Column(groups[g].rows, "QTDE_REAL")))]]

\* lines 90-98: the pie of a page is drawn whatever its values are
kgs_ax2(chunk) == "pie"

\* The outcomes of the script.  Axes.pie divides the values of a page by
\* their sum: on a page whose values are all 0 the wedges are NaN, which,
\* depending on the matplotlib version, is drawn as an empty pie or raises
\* ValueError when the page is saved, and then no report is left.
ranking_chart_kgs(rows0) ==
    LET frame == kgs_filter(rows0)
        grouped == kgs_grouped(frame)
        chunks(s) == page_loop(insert_Posicao(s), ITEMS_PER_PAGE_KGS)
    IN  UNION {
          (IF \E p \in 1..Len(chunks(s)) :
                 FSum(Column(chunks(s)[p], "metric")) = Zero
           THEN {Raised} ELSE {}) \cup
          {[raised |-> FALSE,
            df |-> frame,
            df_combined |-> frame,
            aggregated |-> grouped,
            sorted_df |-> insert_Posicao(s),
            total_metric |-> NaN,
            time_series_agg |-> <<>>,
            pages |-> chunks(s)]} :
              s \in sort_values(grouped, "metric")}

---------------------------------------------------------------------------
(* ranking_vendas.generate_general_report, lines 611-733: the data of the
   three proportion charts *)

\* the number of products of the first slice, lines 680-681
TOP_N == 20

\* lines 615-626: the columns the charts use.  No cell is cleaned here: the
\* money columns are summed as they were read.
gg_read(rows0) ==
    [i \in 1..Len(rows0) |->
        Project(rows0[i], {"CODPRODUTO", "DATA", "QTDE_REAL", "Fat_Liquido",
                           "Lucro_Prej"})]

\* lines 674-675: (lucro / fat) * 100 on floats, then every infinity
\* replaced by 0; 0 / 0 is NaN and stays
gg_Margem(lucro, fat) ==
    IF fat = Zero THEN (IF lucro = Zero THEN NaN ELSE Zero)
    ELSE FMul(FDiv(lucro, fat), Float(100, 1))

\* lines 688, 692, 696: (lucro / fat) * 100 if fat != 0 else 0
gg_total_margin(lucro, fat) ==
    IF fat # Zero THEN FMul(FDiv(lucro, fat), Float(100, 1)) ELSE Zero

\* lines 664-676: one entry per product
gg_grouped(frame, metric) ==
    LET groups == groupby(frame, <<"CODPRODUTO">>)
    IN  [g \in 1..Len(groups) |->
            LET lucro == FSum(Column(groups[g].rows, "Lucro_Prej"))
                fat == FSum(Column(groups[g].rows, "Fat_Liquido"))
            IN  [CODPRODUTO |-> groups[g].key[1],
                 Lucro_Prej |-> lucro,
                 Fat_Liquido |-> fat,
                 metric |-> CASE metric = "Tonelagem" ->
                                    FSum(Column(groups[g].rows, "QTDE_REAL"))
                              [] metric = "Faturamento" -> fat
                              [] metric = "Margem" -> gg_Margem(lucro, fat)]]

\* line 679: sort_values(metric_column, ascending=False): the entries with a
\* value in any descending arrangement, then the entries without
gg_sorted(grouped) ==
    {s \o SelectSeq(grouped, LAMBDA r : isna(r.metric)) :
        s \in sort_values(SelectSeq(grouped, LAMBDA r : notna(r.metric)), "metric")}

\* the second slice taken from the last entry of the first
prepare_pie_data_overlapping(frame, metric, sorted) ==
    LET top20 == SubSeq(sorted, 1, IF Len(sorted) < TOP_N THEN Len(sorted) ELSE TOP_N)
        resto == SubSeq(sorted, TOP_N, Len(sorted))
        total_top20_lucro == FSum(Column(top20, "Lucro_Prej"))
        total_resto_lucro == FSum(Column(resto, "Lucro_Prej"))
    IN  IF metric = "Margem"
        THEN [sorted_df |-> sorted,
              values |-> <<FAbs(total_top20_lucro), FAbs(total_resto_lucro)>>,
              display_values |->
                  <<gg_total_margin(total_top20_lucro,
                                    FSum(Column(top20, "Fat_Liquido"))),
                    gg_total_margin(total_resto_lucro,
                                    FSum(Column(resto, "Fat_Liquido")))>>,
              total |-> gg_total_margin(FSum(Column(frame, "Lucro_Prej")),
                                        FSum(Column(frame, "Fat_Liquido"))),
              resto_count |-> Len(resto),
              is_margin |-> TRUE]
        ELSE [sorted_df |-> sorted,
              values |-> <<FSum(Column(top20, "metric")), FSum(Column(resto, "metric"))>>,
              display_values |-> <<>>,
              total |-> FAdd(FSum(Column(top20, "metric")),
                             FSum(Column(resto, "metric"))),
              resto_count |-> Len(resto),
              is_margin |-> FALSE]

\* lines 662-727: the dictionary of one chart, for one order of the sort
prepare_pie_data(frame, metric, sorted) ==
    LET top20 == SubSeq(sorted, 1, IF Len(sorted) < TOP_N THEN Len(sorted) ELSE TOP_N)
        resto == SubSeq(sorted, TOP_N + 1, Len(sorted))
        total_top20_lucro == FSum(Column(top20, "Lucro_Prej"))
        total_resto_lucro == FSum(Column(resto, "Lucro_Prej"))
    IN  IF metric = "Margem"
        THEN [sorted_df |-> sorted,
              values |-> <<FAbs(total_top20_lucro), FAbs(total_resto_lucro)>>,
              display_values |->
                  <<gg_total_margin(total_top20_lucro,
                                    FSum(Column(top20, "Fat_Liquido"))),
                    gg_total_margin(total_resto_lucro,
                                    FSum(Column(resto, "Fat_Liquido")))>>,
              total |-> gg_total_margin(FSum(Column(frame, "Lucro_Prej")),
                                        FSum(Column(frame, "Fat_Liquido"))),
              resto_count |-> Len(resto),
              is_margin |-> TRUE]
        ELSE [sorted_df |-> sorted,
              values |-> <<FSum(Column(top20, "metric")), FSum(Column(resto, "metric"))>>,
              display_values |-> <<>>,
              total |-> FAdd(FSum(Column(top20, "metric")),
                             FSum(Column(resto, "metric"))),
              resto_count |-> Len(resto),
              is_margin |-> FALSE]

\* The outcomes of the data part of generate_general_report.
\* df['DATA'].iloc[0] raises IndexError on an empty sheet; the sum of a
\* money column that holds a string raises TypeError.
generate_general_report(rows0) ==
    LET frame == gg_read(rows0)
        text(r) == r.Fat_Liquido.t = "str" \/ r.Lucro_Prej.t = "str"
    IN  IF rows0 = <<>> \/ \E i \in 1..Len(frame) : text(frame[i])
        THEN {Raised}
        ELSE {[raised |-> FALSE, df |-> frame, df_combined |-> <<>>,
               aggregated |-> <<>>, sorted_df |-> <<>>, total_metric |-> NaN,
               time_series_agg |-> <<>>, pages |-> <<>>,
               pie_data |-> [m \in Metrics |->
                               prepare_pie_data(frame, m, order[m])]] :
                 order \in {o \in [Metrics -> UNION {gg_sorted(gg_grouped(frame, m)) :
                                                        m \in Metrics}] :
                              \A m \in Metrics : o[m] \in gg_sorted(gg_grouped(frame, m))}}

---------------------------------------------------------------------------
(* ranking_vendas.generate_consolidated_excel, lines 856-1048: the table of
   the spreadsheet *)

\* lines 866-945: the dictionary of this function
product_groups_excel ==
    <<  [name |-> "ACEM",
          codes |-> <<1924, 8006, 1940, 1878, 8101, 1841>>],
        [name |-> "ALCATRA C/ MAMINHA",
          codes |-> <<8001, 1836, 1965, 1800>>],
        [name |-> "BARRIGA",
          codes |-> <<1833, 1639, 1544, 1674, 1863, 1845, 1385, 1898, 1913,
                      1513, 1444, 1434, 1960, 1954, 5200>>],
        [name |-> "BUCHO",
          codes |-> <<1567, 1816, 1856, 1480, 1527, 1903, 1855, 1958>>],
        [name |-> "BACON MANTA",
          codes |-> <<869, 981>>],
        [name |-> "BANHA SUINA",
          codes |-> <<1605, 1139>>],
        [name |-> "BATATA",
          codes |-> <<1767, 1872>>],
        [name |-> "BOLACHA",
          codes |-> <<1649, 1644, 1643, 1647, 1645, 1648>>],
        [name |-> "BOLINHO",
          codes |-> <<1709, 1707, 1708, 1941, 1999>>],
        [name |-> "CARNE SALGADA",
          codes |-> <<1428, 845, 809, 1452>>],
        [name |-> "CARNE TEMPERADA",
          codes |-> <<1720, 1623, 1618>>],
        [name |-> "CARRE",
          codes |-> <<1568, 1355, 1443, 1817, 1464, 1640, 1533, 1286, 1518,
                      1653, 1216, 1316, 906, 1210, 1908, 1221, 1177, 1612,
                      1634, 917, 1689, 1511, 1955>>],
        [name |-> "CONTRA FILÉ",
          codes |-> <<1901, 1922, 1840, 1947, 1894, 1899, 1905, 1503, 1824>>],
        [name |-> "CORAÇÃO DE ALCATRA",
          codes |-> <<1830, 1939>>],
        [name |-> "COSTELA BOV",
          codes |-> <<1768, 1825, 1931, 1814, 1890, 1890>>],
        [name |-> "COSTELA MINGA",
          codes |-> <<1973, 1982>>],
        [name |-> "COSTELA SUINA CONGELADA",
          codes |-> <<1478, 1595, 1506, 1081, 1592, 1412, 1641, 1888, 1522,
                      1638, 1607, 1517, 1461, 1416, 1760, 1877, 1664, 1053,
                      1314, 1617, 1599, 1896, 1857, 1179, 1324, 1529, 1421,
                      1323, 1879, 1052, 1051, 1354, 905, 1384, 1086, 1174,
                      1150, 1758, 1320, 1829, 1665, 1327, 1442, 1431, 1704,
                      1736, 1445, 1321, 1884, 1535, 8007>>],
        [name |-> "COSTELA SALGADA",
          codes |-> <<1446, 755, 848, 1433, 1095>>],
        [name |-> "COXA C/ SOBRECOXA",
          codes |-> <<1519, 1956>>],
        [name |-> "COXÃO DURO",
          codes |-> <<1920, 8003, 1803, 1949, 1795>>],
        [name |-> "COXÃO MOLE",
          codes |-> <<1831, 8002, 1948, 1976, 1375>>],
        [name |-> "COXINHA DA ASA",
          codes |-> <<1604, 1546, 8005>>],
        [name |-> "CUPIM A",
          codes |-> <<1772>>],
        [name |-> "CUPIM B",
          codes |-> <<1804, 1456, 1926, 1984>>],
        [name |-> "FIGADO",
          codes |-> <<1808, 1455, 1818, 1910, 1823, 1537, 1505, 1408, 1373,
                      1458, 1508, 1525, 1454, 1801, 1528, 1530, 1502, 1945,
                      1967, 1998, 1978, 1983, 2018>>],
        [name |-> "FILÉ DE PEITO DE FRANGO",
          codes |-> <<1632, 1386, 1935>>],
        [name |-> "FILÉ MIGNON",
          codes |-> <<1812, 1919>>],
        [name |-> "FRALDA",
          codes |-> <<1797, 1925>>],
        [name |-> "HAMBURGUER",
          codes |-> <<1009, 1866, 1010>>],
        [name |-> "HOT POCKET",
          codes |-> <<1987>>],
        [name |-> "JERKED",
          codes |-> <<1893, 1943, 1880, 1886, 1851>>],
        [name |-> "LAGARTO",
          codes |-> <<1849, 1396, 1895, 1813>>],
        [name |-> "LASANHA",
          codes |-> <<1003, 1691, 1997, 1002, 1991>>],
        [name |-> "LINGUIÇA CALABRESA AURORA",
          codes |-> <<788, 1974>>],
        [name |-> "LINGUIÇA CALABRESA SADIA",
          codes |-> <<1339, 807, 1848, 1847>>],
        [name |-> "LINGUIÇA CALABRESA PAMPLONA",
          codes |-> <<9165, 910>>],
        [name |-> "LÍNGUA SALGADA",
          codes |-> <<817, 849, 1430>>],
        [name |-> "LOMBO SALGADO",
          codes |-> <<846, 878, 1432, 1451>>],
        [name |-> "MASC. ORELHA SALGADA",
          codes |-> <<1426, 1447, 850, 746>>],
        [name |-> "MARGARINA DORIANA COM SAL",
          codes |-> <<1161, 1981>>],
        [name |-> "MARGARINA QUALLY COM SAL",
          codes |-> <<826, 811>>],
        [name |-> "MEIO DA ASA",
          codes |-> <<2311, 1937>>],
        [name |-> "MINI CHICKEN",
          codes |-> <<1024, 1994>>],
        [name |-> "MINI LASANHA",
          codes |-> <<1992, 1985>>],
        [name |-> "MOCOTÓ",
          codes |-> <<1539, 1460, 1342, 1540, 1675, 1850, 1827, 1821, 1853,
                      1407, 1723, 1585, 1407, 1723, 1585, 1843, 1584, 762,
                      1534, 1883, 1509, 1601, 1962>>],
        [name |-> "MUSSARELA",
          codes |-> <<2000, 947, 1807, 1914>>],
        [name |-> "NUGGETS",
          codes |-> <<1007, 1995>>],
        [name |-> "PATINHO",
          codes |-> <<1805, 1874, 8000, 1938, 9166, 1966>>],
        [name |-> "PALETA",
          codes |-> <<1953, 1964, 1923, 1975>>],
        [name |-> "PÉ SALGADO",
          codes |-> <<1427, 836, 852, 1450>>],
        [name |-> "PEITO BOV",
          codes |-> <<1815, 1875, 1789, 1952>>],
        [name |-> "PERNIL SUINO C/OSSO C/PELE",
          codes |-> <<1942, 1635, 1724, 1570, 1756>>],
        [name |-> "PICANHA B",
          codes |-> <<1946, 1950>>],
        [name |-> "PIZZA",
          codes |-> <<1989, 1990>>],
        [name |-> "PONTA SALGADA",
          codes |-> <<1425, 750>>],
        [name |-> "PURURUCA 60G",
          codes |-> <<1288, 1289, 1287>>],
        [name |-> "PURURUCA 1KG",
          codes |-> <<1265, 812>>],
        [name |-> "RABO BOV",
          codes |-> <<1828, 1839, 1876, 1861, 1116, 1705, 1531, 1906, 1826,
                      1911, 1882, 1571, 1335, 1963, 1909, 1473>>],
        [name |-> "RABO SUINO SALGADA",
          codes |-> <<851, 1429, 748, 1449>>],
        [name |-> "SALAME UAI",
          codes |-> <<1495, 1500, 1496, 1497, 1498, 1499>>],
        [name |-> "SALSICHA",
          codes |-> <<759, 1189, 816, 1162>>],
        [name |-> "STEAK FGO",
          codes |-> <<1718, 1996>>],
        [name |-> "TAPIOCA DA TERRINHA",
          codes |-> <<1929, 1930>>],
        [name |-> "YOPRO",
          codes |-> <<1698, 1701, 1587, 1700, 86754, 1586, 9675>>] >>

\* lines 947-950
code_to_group_excel == InvertGroups(product_groups_excel)

\* line 953: df['CODPRODUTO'].map(code_to_group)
ex_GRUPO(code) ==
    IF code.i \in DOMAIN code_to_group_excel
    THEN Text(code_to_group_excel[code.i]) ELSE NaN

\* the quotient of two float columns: x / 0 is an infinity, 0 / 0 is NaN
pd_div(x, y) ==
    IF isna(x) \/ isna(y) THEN NaN
    ELSE IF y = Zero THEN (IF x = Zero THEN NaN ELSE [t |-> "inf", neg |-> x.n < 0])
    ELSE FDiv(x, y)

\* round(2): to the nearest hundredth, halves to the even neighbour
round2(x) ==
    LET scaled == x.n * 100
        q == scaled \div x.d
        r == scaled % x.d
        up == \/ 2 * r > x.d
              \/ (2 * r = x.d /\ q % 2 = 1)
    IN  Float(IF up THEN q + 1 ELSE q, 100)

\* lines 862-863, 953, 956: the seven columns read, GRUPO and PESO_UNITARIO
ex_read(rows0) ==
    [i \in 1..Len(rows0) |->
        With(With(Project(rows0[i], {"CODPRODUTO", "DESCRICAO", "DATA", "QTDE",
                                     "QTDE_REAL", "Fat_Liquido", "Lucro_Prej"}),
                  "GRUPO", ex_GRUPO(rows0[i].CODPRODUTO)),
             "PESO_UNITARIO", pd_div(rows0[i].QTDE_REAL, rows0[i].QTDE))]

\* lines 970-972: both money columns cleaned, then the rows without a
\* missing cell in the five columns
ex_dropna(frame) ==
    SelectSeq(
        [i \in 1..Len(frame) |->
            [frame[i] EXCEPT !.Fat_Liquido = clean_currency(@),
                             !.Lucro_Prej = clean_currency(@)]],
        LAMBDA r : /\ notna(r.Fat_Liquido) /\ notna(r.Lucro_Prej)
                   /\ notna(r.QTDE_REAL) /\ notna(r.QTDE) /\ notna(r.PESO_UNITARIO))

\* lines 997-1000 and 1018-1021: np.where(fat == 0, 0, (lucro / fat) * 100)
\* rounded to two places
MARGEM_PERC(lucro, fat) ==
    IF fat = Zero THEN Zero
    ELSE round2(FMul(FDiv(lucro, fat), Float(100, 1)))

\* lines 985-991 and 1006-1012: the sums and the count of one group of rows
ex_agg(rows) ==
    LET tonelagem == FSum(Column(rows, "QTDE_REAL"))
        fat == FSum(Column(rows, "Fat_Liquido"))
        lucro == FSum(Column(rows, "Lucro_Prej"))
    IN  [PESO_MEDIO |-> pd_div(tonelagem, FSum(Column(rows, "QTDE"))),
         TONELAGEM_KG |-> tonelagem,
         FATURAMENTO_RS |-> fat,
         MARGEM_PERC |-> MARGEM_PERC(lucro, fat),
         LUCRO_RS |-> lucro,
         QTDE_VENDAS |-> count(Column(rows, "DATA"))]

\* lines 979, 985-1004: one entry per group.  Every group name is in upper
\* case already, so str.upper() leaves it as it is.
group_aggregated(frame) ==
    LET groups == groupby(SelectSeq(frame, LAMBDA r : notna(r.GRUPO)), <<"GRUPO">>)
    IN  [g \in 1..Len(groups) |->
            ex_agg(groups[g].rows) @@
            [CODPRODUTO |-> Text("VÁRIOS PROD."), DESCRICAO |-> groups[g].key[1]]]

\* line 976: sort_values('DATA') puts the rows without a date last, in the
\* order of the sheet, and drop_duplicates keeps the last row of each
\* product: its last row without a date, or else any of the rows of its
\* latest date (the sort is not stable)
latest_descriptions(frame, code) ==
    LET mine == {i \in 1..Len(frame) : frame[i].CODPRODUTO = code}
        undated == {i \in mine : isna(frame[i].DATA)}
        dated == mine \ undated
    IN  IF undated # {}
        THEN {frame[CHOOSE i \in undated : \A j \in undated : j <= i].DESCRICAO}
        ELSE {frame[i].DESCRICAO :
                i \in {k \in dated :
                         \A j \in dated : frame[j].DATA.day <= frame[k].DATA.day}}

\* lines 982, 1006-1030: one entry per product of no group, with its latest
\* description.  The descriptions of the sheets are in upper case already.
individual_aggregated(frame) ==
    LET groups == groupby(SelectSeq(frame, LAMBDA r : isna(r.GRUPO)), <<"CODPRODUTO">>)
    IN  {[g \in 1..Len(groups) |->
             ex_agg(groups[g].rows) @@
             [CODPRODUTO |-> groups[g].key[1], DESCRICAO |-> pick[g]]] :
           pick \in {p \in [1..Len(groups) ->
                              {frame[i].DESCRICAO : i \in 1..Len(frame)}] :
                       \A g \in 1..Len(groups) :
                           p[g] \in latest_descriptions(frame, groups[g].key[1])}}

\* The outcomes of the data part of generate_consolidated_excel, lines
\* 862-1048.  df['DATA'].iloc[0] raises IndexError on an empty sheet.  A
\* column without a string has a float dtype, and .str raises
\* AttributeError on it: so the function raises when no product of the
\* sheet is in a group, and when no row of the sheet has a description.
\* Lines 1045-1048: the entries by descending tonnage, with the margin as a
\* fraction.
generate_consolidated_excel(rows0) ==
    LET read == ex_read(rows0)
        frame == ex_dropna(read)
    IN  IF \/ rows0 = <<>>
           \/ \A i \in 1..Len(read) : isna(read[i].GRUPO)
           \/ \A i \in 1..Len(read) : isna(read[i].DESCRICAO)
        THEN {Raised}
        ELSE {[raised |-> FALSE, df |-> frame, df_combined |-> <<>>,
               aggregated |-> <<>>, sorted_df |-> <<>>, total_metric |-> NaN,
               time_series_agg |-> <<>>, pages |-> <<>>,
               final_df |-> [k \in 1..Len(s) |->
                               [s[k] EXCEPT !.MARGEM_PERC = FDiv(@, Float(100, 1))]]] :
                 s \in UNION {sort_values(group_aggregated(frame) \o individual, "TONELAGEM_KG") :
                                individual \in individual_aggregated(frame)}}

---------------------------------------------------------------------------
(* The sheets *)

MaxRows == 2

\* items_per_page of the main configuration, ranking_vendas.py line 1104
ITEMS_PER_PAGE == 5

\* a grouped code, a second code of the same group, a code of no group
Codes == {1924, 8006, 7777}

DocMinusBRL == <<"-", "R", "$", " ", "5", "0", ",", "0", "0">>
Unparseable == <<"a", "b", "c">>

BaseRow(code) ==
    [CODPRODUTO |-> PyInt(code), DESCRICAO |-> Text("A"), DATA |-> Date(6),
     QTDE |-> Float(1, 1), QTDE_REAL |-> Float(2, 1), Fat_Liquido |-> Float(100, 1),
     Lucro_Prej |-> Float(10, 1), Margem |-> Float(1, 10)]

\* the rows of a product: the base row, and the base row with another
\* description, another date, another quantity, other money cells or
\* another row-level margin
RowsOf(code) ==
    LET b == BaseRow(code)
    IN  {b}
        \cup {[b EXCEPT !.DESCRICAO = v] : v \in {Text("B"), NaN}}
        \cup {[b EXCEPT !.DATA = v] : v \in {Date(7), NaT}}
        \cup {[b EXCEPT !.QTDE_REAL = v] :
                v \in {Float(-1, 1), Zero, Float(12346, 10000), NaN}}
        \cup {[b EXCEPT !.Fat_Liquido = v[1], !.Lucro_Prej = v[2]] :
                v \in {<<Float(-50, 1), Float(-5, 1)>>,
                       <<NaN, Float(10, 1)>>,
                       <<Str(Unparseable), Float(10, 1)>>,
                       <<Str(DocMinusBRL), Float(10, 1)>>,
                       <<Float(100, 1), NaN>>}}
        \cup {[b EXCEPT !.Margem = v] : v \in {Float(-1, 20), NaN}}

Rows == UNION {RowsOf(code) : code \in Codes}

\* the margin example: net revenue 100, -50, 200 with profit 10, -5, 20
MarginExample ==
    << BaseRow(7777),
       [BaseRow(7777) EXCEPT !.Fat_Liquido = Float(-50, 1), !.Lucro_Prej = Float(-5, 1)],
       [BaseRow(7777) EXCEPT !.Fat_Liquido = Float(200, 1), !.Lucro_Prej = Float(20, 1)] >>

\* the end-to-end scenario: 12 rows over three products, two of them in one
\* group and one in no group
EndToEnd ==
    [i \in 1..12 |->
        [BaseRow(CASE i % 3 = 0 -> 1924 [] i % 3 = 1 -> 8006 [] i % 3 = 2 -> 7777)
            EXCEPT !.DATA = Date(i)]]

\* the sheets of the model: every sheet of at most MaxRows rows, and the two
\* documented scenarios
IsSheet(s) ==
    \/ \E k \in 0..MaxRows : s \in [1..k -> Rows]
    \/ s \in {MarginExample, EndToEnd}

---------------------------------------------------------------------------
(* The inputs of clean_currency *)

MaxStrLen == 4

Alphabet == {"R", "$", " ", "(", ")", "-", ",", ".", "1", "a"}

\* the inputs the docstring and the specification document
DocBRL == <<"R", "$", " ", "1", ".", "2", "3", "4", ",", "5", "6">>
DocParen == <<"(", "1", ".", "2", "3", "4", ",", "5", "6", ")">>
DocMinusDot == <<"-", "1", "2", "3", "4", ".", "5", "6">>
DocDot == <<"1", "2", "3", "4", ".", "5", "6">>
DocThousands == <<"1", ",", "2", "3", "4">>
DocMillions == <<"1", ",", "2", "3", "4", ",", "5", "6", "7">>
DocCents == <<"1", "2", "3", "4", ",", "5", "6">>
DocStrings ==
    {DocBRL, DocParen, DocMinusBRL, DocMinusDot, DocDot, DocThousands, DocMillions,
     DocCents, Unparseable}

DocNumber == Float(12345, 10)

\* the arguments of the model: every string of at most MaxStrLen characters
\* of the alphabet, the documented strings, missing values and numbers
IsCurrencyInput(v) ==
    \/ \E k \in 0..MaxStrLen : \E s \in [1..k -> Alphabet] : v = Str(s)
    \/ \E s \in DocStrings : v = Str(s)
    \/ v \in {None, NaN, DocNumber, Float(-50, 1), Zero}

---------------------------------------------------------------------------
(* Specification of the currency parser: one call of clean_currency *)

\* the report variables before any report ran
NoReport ==
    /\ script = "none"
    /\ metric_name = "none"
    /\ df = <<>>
    /\ df_combined = <<>>
    /\ aggregated = <<>>
    /\ sorted_df = <<>>
    /\ total_metric = NaN
    /\ time_series_agg = <<>>
    /\ pages = <<>>
    /\ raised = FALSE
    /\ final_df = <<>>
    /\ pie_data = <<>>
    /\ charts = <<>>
    /\ titles = <<>>

\* no run of the main sequence has started
NoRun ==
    /\ report = 0
    /\ output_path = "unbound"
    /\ temp_path = "unbound"
    /\ files = <<>>
    /\ attempted = {}
    /\ escaped = "none"
    /\ columns = {}
    /\ exception = "none"

\* the metric loop has not started
NoLoop ==
    /\ history = <<>>
    /\ build = "first"

InitCurrency ==
    /\ IsCurrencyInput(value)
    /\ ret = None
    /\ stdout = <<>>
    /\ pc = "cc_call"
    /\ sheet = <<>>
    /\ items_per_page = ITEMS_PER_PAGE
    /\ NoReport
    /\ NoRun
    /\ NoLoop

CleanCurrencyCall ==
    /\ pc = "cc_call"
    /\ ret' = clean_currency(value)
    /\ stdout' = stdout \o clean_currency_print(value)
    /\ pc' = "cc_return"
    /\ UNCHANGED <<value, report_vars, run_vars, loop_vars>>

NextCurrency == CleanCurrencyCall

SpecCurrency == InitCurrency /\ [][NextCurrency]_vars

---------------------------------------------------------------------------
(* Specification of the reports: a sheet is read and one report is made *)

Init ==
    /\ IsSheet(sheet)
    /\ items_per_page = ITEMS_PER_PAGE
    /\ NoReport
    /\ NoRun
    /\ NoLoop
    /\ value = None
    /\ ret = None
    /\ stdout = <<>>
    /\ pc = "start"

\* the diagnostics of ETAPA 1: clean_currency over one column, then the other
RECURSIVE gr_lines(_)
gr_lines(s) ==
    IF s = <<>> THEN <<>>
    ELSE clean_currency_print(Head(s)) \o gr_lines(Tail(s))

gr_printed(rows0, metric) ==
    IF metric \in {"Faturamento", "Margem"} /\ rows0 # <<>>
    THEN gr_lines(Column(rows0, "Fat_Liquido")) \o gr_lines(Column(rows0, "Lucro_Prej"))
    ELSE <<>>

\* the second axes of a content page of each script
ax2(name, chunk) ==
    CASE name = "ranking_vendas" -> gr_ax2(chunk)
      [] name = "relatorio_analitico_vendas" -> ra_ax2(chunk)
      [] name = "ranking_chart_kgs" -> kgs_ax2(chunk)

\* the tables a report leaves; the spreadsheet table and the data of the
\* general report stay as they were written when another report runs
Tables(name, metric, out) ==
    /\ script' = name
    /\ metric_name' = metric
    /\ df' = out.df
    /\ df_combined' = out.df_combined
    /\ aggregated' = out.aggregated
    /\ sorted_df' = out.sorted_df
    /\ total_metric' = out.total_metric
    /\ time_series_agg' = out.time_series_agg
    /\ pages' = out.pages
    /\ raised' = out.raised
    /\ final_df' = IF "final_df" \in DOMAIN out THEN out.final_df ELSE final_df
    /\ pie_data' = IF "pie_data" \in DOMAIN out THEN out.pie_data ELSE pie_data
    /\ charts' = [p \in 1..Len(out.pages) |-> ax2(name, out.pages[p])]
    /\ titles' = IF out.pages = <<>> THEN <<>>
                 ELSE page_titles(out.sorted_df,
                                  IF name = "ranking_chart_kgs" THEN ITEMS_PER_PAGE_KGS
                                  ELSE items_per_page)

Report(name, metric, out, printed) ==
    /\ Tables(name, metric, out)
    /\ stdout' = stdout \o printed
    /\ pc' = "done"
    /\ UNCHANGED <<sheet, items_per_page, currency_vars, run_vars, loop_vars>>

\* ranking_vendas.generate_report
GenerateReport ==
    /\ pc = "start"
    /\ \E metric \in Metrics :
         \E out \in generate_report(sheet, metric, items_per_page) :
            Report("ranking_vendas", metric, out, gr_printed(sheet, metric))

\* relatorio_analitico_vendas.generate_report
AnaliticoGenerateReport ==
    /\ pc = "start"
    /\ \E metric \in Metrics :
         \E out \in analitico_generate_report(sheet, metric, items_per_page) :
            Report("relatorio_analitico_vendas", metric, out,
                   IF metric = "Faturamento" /\ sheet # <<>>
                   THEN gr_lines(Column(sheet, "Fat_Liquido")) ELSE <<>>)

\* generate_general_report(**config), line 1117
GenerateGeneralReport ==
    /\ pc = "start"
    /\ \E out \in generate_general_report(sheet) :
          Report("generate_general_report", "Geral", out, <<>>)

\* generate_consolidated_excel(**config), line 1122
GenerateConsolidatedExcel ==
    /\ pc = "start"
    /\ \E out \in generate_consolidated_excel(sheet) :
          Report("generate_consolidated_excel", "Excel", out,
                 gr_printed(sheet, "Faturamento"))

\* ranking_chart_kgs.py
RankingChartKgs ==
    /\ pc = "start"
    /\ \E out \in ranking_chart_kgs(sheet) :
            Report("ranking_chart_kgs", "Tonelagem", out, <<>>)

Next ==
    \/ GenerateReport
    \/ AnaliticoGenerateReport
    \/ RankingChartKgs
    \/ GenerateGeneralReport
    \/ GenerateConsolidatedExcel

Spec == Init /\ [][Next]_vars

---------------------------------------------------------------------------
(* C1: clean_currency returns the documented value for each documented
   input: "R$ 1.234,56" gives 1234.56, "(1.234,56)" gives -1234.56,
   "-R$ 50,00" gives -50.0, "-1234.56" gives -1234.56, "1234.56" gives
   1234.56, the number 1234.5 is returned unchanged and a missing input
   (None, NaN) is returned as missing. *)
C1_DocumentedValues ==
    pc = "cc_return" =>
        /\ value = Str(DocBRL) => ret = Float(123456, 100)
        /\ value = Str(DocParen) => ret = Float(-123456, 100)
        /\ value = Str(DocMinusBRL) => ret = Float(-50, 1)
        /\ value = Str(DocMinusDot) => ret = Float(-123456, 100)
        /\ value = Str(DocDot) => ret = Float(123456, 100)
        /\ value = DocNumber => ret = Float(12345, 10)
        /\ value = None => ret = None
        /\ value = NaN => ret = NaN

C1_Witness ==
    pc = "cc_return" /\ value = Str(DocParen) /\ ret = Float(-123456, 100)

---------------------------------------------------------------------------
(* Vocabulary of the claims about the reports *)

Ranking == pc = "done" /\ script = "ranking_vendas" /\ ~raised
Ranked == pc = "done" /\ ~raised

\* the groups whose member list holds the code
ListingGroups(code) ==
    {g \in 1..Len(product_groups) : Lists(product_groups[g], code)}

\* the kept rows that resolve to an identity, and those of one week of it
RowsOfIdentity(id) == SelectSeq(df_combined, LAMBDA r : r.ID_AGRUPADO = id)
RowsOfWeek(id, week) ==
    SelectSeq(df_combined, LAMBDA r : r.ID_AGRUPADO = id /\ SEMANA(r.DATA) = week)

\* v is the margin of the rows: 100 * sum(profit) / sum(net revenue), and 0
\* when the summed net revenue is not positive
IsMarginOfSums(v, rows) ==
    LET lucro == FSum(Column(rows, "Lucro_Prej"))
        fat == FSum(Column(rows, "Fat_Liquido"))
    IN  IF fat.n <= 0 THEN v = Zero
        ELSE v.n * fat.n * lucro.d = 100 * lucro.n * fat.d * v.d

---------------------------------------------------------------------------
(* C2: for every product code, the aggregation identity used by
   generate_report is the group's name when the code is in exactly one
   group's member list, whatever the row's description is, and the code's
   own string form when the code is in no group's member list.  The first
   conjunct examines every code of the group table, which no action
   changes, where the sheet is empty; the second the rows of the report. *)
C2_IdentityOfCode ==
    /\ (pc = "start" /\ sheet = <<>>) =>
          \A code \in GroupCodes(product_groups) :
          Cardinality(ListingGroups(code)) = 1 =>
             \A g \in ListingGroups(code) :
                map_code_to_group(PyInt(code)) = Text(product_groups[g].name)
    /\ Ranking =>
          \A i \in 1..Len(df_combined) :
             LET row == df_combined[i]
                 listing == ListingGroups(row.CODPRODUTO.i)
             IN  /\ Cardinality(listing) = 1 =>
                       \A g \in listing :
                          row.ID_AGRUPADO = Text(product_groups[g].name)
                 /\ listing = {} =>
                       /\ row.CODPRODUTO.i = 7777
                       /\ row.ID_AGRUPADO = Text("7777")

C2_Witness ==
    /\ Ranking
    /\ \E i, j \in 1..Len(df_combined) :
          /\ df_combined[i].CODPRODUTO.i = 8006
          /\ df_combined[i].DESCRICAO = Text("B")
          /\ df_combined[i].ID_AGRUPADO = Text("ACEM")
          /\ df_combined[j].CODPRODUTO.i = 7777
          /\ df_combined[j].ID_AGRUPADO = Text("7777")

(* C3: with metric Margem the margin is computed from sums at every level:
   the title-page total, each ranked identity's value and each
   (identity, week) value equal 100 * (sum of profit) / (sum of net revenue)
   over the rows of that level, and 0 when that sum of net revenue is not
   positive; net revenue 100, -50, 200 with profit 10, -5, 20 gives 10. *)
C3_MarginFromSums ==
    (Ranking /\ metric_name = "Margem") =>
        /\ IsMarginOfSums(total_metric, df)
        /\ \A k \in 1..Len(sorted_df) :
              IsMarginOfSums(sorted_df[k].metric, RowsOfIdentity(sorted_df[k].GRUPO_ID))
        /\ \A k \in 1..Len(time_series_agg) :
              IsMarginOfSums(time_series_agg[k].metric,
                             RowsOfWeek(time_series_agg[k].ID_AGRUPADO,
                                        time_series_agg[k].SEMANA))
        /\ sheet = MarginExample => total_metric = Float(10, 1)

(* C4: the total-by-identity table has exactly one row per distinct
   aggregation identity among the kept rows: no identity is in two ranked
   entries and no identity with kept rows is absent, also when rows of one
   ungrouped code carry different or missing descriptions. *)
C4_OneEntryPerIdentity ==
    Ranking =>
        /\ \A j, k \in 1..Len(sorted_df) :
              sorted_df[j].GRUPO_ID = sorted_df[k].GRUPO_ID => j = k
        /\ {sorted_df[k].GRUPO_ID : k \in 1..Len(sorted_df)}
              = {df_combined[i].ID_AGRUPADO : i \in 1..Len(df_combined)}

(* C5: for Tonelagem and Faturamento the value of a ranked identity is the
   sum of the metric column over all kept rows that resolve to that
   identity, and the value of a weekly point is the sum over all kept rows
   of that identity and week. *)
C5_SumPerIdentity ==
    (Ranking /\ metric_name \in {"Tonelagem", "Faturamento"}) =>
        LET column == IF metric_name = "Tonelagem" THEN "QTDE_REAL" ELSE "Fat_Liquido"
        IN  /\ \A k \in 1..Len(sorted_df) :
                  sorted_df[k].metric
                     = FSum(Column(RowsOfIdentity(sorted_df[k].GRUPO_ID), column))
            /\ \A k \in 1..Len(time_series_agg) :
                  time_series_agg[k].metric
                     = FSum(Column(RowsOfWeek(time_series_agg[k].ID_AGRUPADO,
                                              time_series_agg[k].SEMANA), column))

(* C6: the ranked table is in descending order of the metric value and its
   positions are exactly 1..N for the N aggregated entries, in the ranking
   step of all three scripts. *)
C6_DescendingAndNumbered ==
    Ranked =>
        /\ Len(sorted_df) = Len(aggregated)
        /\ \A k \in 1..Len(sorted_df) : sorted_df[k].Posicao = k
        /\ \A k \in 1..(Len(sorted_df) - 1) :
              sorted_df[k + 1].metric.n * sorted_df[k].metric.d
                 <= sorted_df[k].metric.n * sorted_df[k + 1].metric.d

C6_Witness ==
    /\ Ranked
    /\ script = "ranking_chart_kgs"
    /\ Len(sorted_df) = 2
    /\ sorted_df[1].Posicao = 1 /\ sorted_df[2].Posicao = 2
    /\ FLt(sorted_df[2].metric, sorted_df[1].metric)
    /\ aggregated[1].metric = sorted_df[2].metric

(* C7: two aggregated entries of equal metric value keep their pre-sort
   relative order in the ranking: the sort is stable, for every table. *)
C7_StableSort ==
    Ranked =>
        \A j, k \in 1..Len(aggregated) :
           (j < k /\ aggregated[j].metric = aggregated[k].metric) =>
              \E a, b \in 1..Len(sorted_df) :
                 /\ a < b
                 /\ sorted_df[a] = With(aggregated[j], "Posicao", a)
                 /\ sorted_df[b] = With(aggregated[k], "Posicao", b)

---------------------------------------------------------------------------
(* Specification of the page loop: a ranked table of N entries is split
   into content pages of items_per_page entries *)

MaxEntries == 12
MaxItemsPerPage == 6

\* a ranked table of n entries, as insert_Posicao numbers them
RankedTable(n) == insert_Posicao([k \in 1..n |-> [metric |-> Float(n - k, 1)]])

InitPages ==
    /\ \E n \in 0..MaxEntries : sorted_df = RankedTable(n)
    /\ items_per_page \in 1..MaxItemsPerPage
    /\ pc = "page_loop"
    /\ pages = <<>>
    /\ sheet = <<>>
    /\ script = "none"
    /\ metric_name = "none"
    /\ df = <<>>
    /\ df_combined = <<>>
    /\ aggregated = <<>>
    /\ total_metric = NaN
    /\ time_series_agg = <<>>
    /\ raised = FALSE
    /\ final_df = <<>>
    /\ pie_data = <<>>
    /\ charts = <<>>
    /\ titles = <<>>
    /\ value = None
    /\ ret = None
    /\ stdout = <<>>
    /\ NoRun
    /\ NoLoop

\* for i in range(0, len(sorted_df), items_per_page): chunk = ...
PageLoop ==
    /\ pc = "page_loop"
    /\ pages' = page_loop(sorted_df, items_per_page)
    /\ titles' = page_titles(sorted_df, items_per_page)
    /\ pc' = "pages_done"
    /\ UNCHANGED <<value, ret, stdout, sheet, items_per_page, script, metric_name, df,
                   df_combined, aggregated, sorted_df, total_metric, time_series_agg,
                   raised, final_df, pie_data, charts, run_vars, loop_vars>>

NextPages == PageLoop

SpecPages == InitPages /\ [][NextPages]_vars

\* the pages one after the other
RECURSIVE Concatenation(_)
Concatenation(chunks) ==
    IF chunks = <<>> THEN <<>> ELSE Head(chunks) \o Concatenation(Tail(chunks))

(* C8: splitting the N ranked entries into content pages of size P, P a
   positive integer, yields exactly ceil(N/P) pages, every page has P
   entries except possibly the last, which has between 1 and P, and the
   pages concatenated in order are the ranked sequence: no entry is
   dropped, duplicated or reordered. *)
C8_Pagination ==
    pc = "pages_done" =>
        LET N == Len(sorted_df)
            P == items_per_page
        IN  /\ Len(pages) = (N + P - 1) \div P
            /\ \A i \in 1..(Len(pages) - 1) : Len(pages[i]) = P
            /\ Len(pages) > 0 =>
                  /\ Len(pages[Len(pages)]) >= 1
                  /\ Len(pages[Len(pages)]) <= P
            /\ Concatenation(pages) = sorted_df

C8_Witness ==
    /\ pc = "pages_done"
    /\ Len(sorted_df) = 7
    /\ items_per_page = 3
    /\ Len(pages) = 3
    /\ Len(pages[3]) = 1

---------------------------------------------------------------------------
(* Specification of a run of ranking_vendas.py: the main sequence calls
   generate_general_report, generate_consolidated_excel and generate_report
   for each metric.  Each function is followed step by step, since each
   step may raise and the files are visible between the steps. *)

\* lines 1106-1137: the reports in the order the module makes them
RunSequence == <<"Geral", "Excel", "Tonelagem", "Faturamento", "Margem">>
Reports == 1..Len(RunSequence)

\* the function that makes a report
Kind(r) ==
    CASE RunSequence[r] = "Geral" -> "generate_general_report"
      [] RunSequence[r] = "Excel" -> "generate_consolidated_excel"
      [] OTHER -> "generate_report"

\* what a path holds: nothing, a document being written or cut short, or a
\* whole document
FileStates == {"absent", "partial", "complete"}

\* os.path.exists(path)
exists(r, path) == files[r][path] # "absent"

\* the path the document is written to: PdfPages(temp_path) at line 368,
\* PdfPages(output_path) at line 736, ExcelWriter(output_path) at line 1051
written_path(r) == IF Kind(r) = "generate_report" THEN "temp" ELSE "output"

\* line 618
required_columns ==
    <<"RAZAO", "VENDEDOR", "CODPRODUTO", "DATA", "QTDE REAL", "Fat Liquido",
      "Lucro / Prej.">>

\* the columns a report function takes from the sheet: required_columns,
\* the selection of lines 200-201 and the selection of lines 862-863
columns_read(r) ==
    CASE Kind(r) = "generate_general_report" -> required_columns
      [] Kind(r) = "generate_report" ->
            <<"CODPRODUTO", "DESCRICAO", "DATA", "QTDE REAL", "Fat Liquido",
              "Lucro / Prej.">>
      [] Kind(r) = "generate_consolidated_excel" ->
            <<"CODPRODUTO", "DESCRICAO", "DATA", "QTDE", "QTDE REAL", "Fat Liquido",
              "Lucro / Prej.">>

\* line 619: [col for col in required_columns if col not in df.columns]
missing_columns(r) == SelectSeq(columns_read(r), LAMBDA col : col \notin columns)

\* ', '.join(names)
RECURSIVE join(_)
join(names) ==
    IF Len(names) <= 1 THEN names
    ELSE <<Head(names), ", ">> \o join(Tail(names))

\* line 622: f"Colunas faltando no arquivo Excel: {', '.join(missing_columns)}"
ValueErrorText(names) == <<"Colunas faltando no arquivo Excel: ">> \o join(names)

\* the text of the KeyError of a column selection
KeyErrorText(names) == <<"KeyError">> \o names

\* the headers of the model: the whole header row, or one that lacks some
\* of these columns
MayMiss == {"RAZAO", "VENDEDOR", "DESCRICAO"}
AllColumns ==
    {"RAZAO", "VENDEDOR", "CODPRODUTO", "DESCRICAO", "DATA", "QTDE", "QTDE REAL",
     "Fat Liquido", "Lucro / Prej."}
Headers == {AllColumns \ m : m \in SUBSET MayMiss}

\* documents of an earlier run may be at the final paths
InitRun ==
    /\ files \in [Reports -> {[output |-> o, temp |-> "absent"] :
                                o \in {"absent", "complete"}}]
    /\ report = 1
    /\ pc = "main"
    /\ output_path = "unbound"
    /\ temp_path = "unbound"
    /\ attempted = {}
    /\ escaped = "none"
    /\ columns \in Headers
    /\ exception = "none"
    /\ stdout = <<>>
    /\ sheet = <<>>
    /\ items_per_page = ITEMS_PER_PAGE
    /\ NoReport
    /\ NoLoop
    /\ value = None
    /\ ret = None

RunUnchanged == UNCHANGED <<currency_vars, report_vars, columns, loop_vars>>

\* str(e) of an exception whose text the scripts do not choose
Unknown == <<"?">>

\* raise: the control goes to the except clause of the function
Raise(text) == pc' = "except" /\ exception' = text

\* the call of the report function: generate_consolidated_excel binds
\* output_path to None before its try (line 858), the others bind it later
Call ==
    /\ pc = "main"
    /\ report \in Reports
    /\ attempted' = attempted \cup {RunSequence[report]}
    /\ output_path' = IF Kind(report) = "generate_consolidated_excel"
                      THEN "None" ELSE "unbound"
    /\ temp_path' = "unbound"
    /\ pc' = "prepare"
    /\ UNCHANGED <<report, files, escaped, stdout, exception>>
    /\ RunUnchanged

\* from the try to the assignment of the paths (lines 110-228, 613-635,
\* 860-956): the sheet is read, its columns are selected (KeyError when one
\* is not there) or, in generate_general_report, required (ValueError with
\* the missing names); then the first date gives month and year and the
\* directory is made
Prepare ==
    /\ pc = "prepare"
    /\ \/ Raise(Unknown) /\ UNCHANGED <<output_path, temp_path, stdout>>
       \/ /\ missing_columns(report) # <<>>
          /\ Raise(IF Kind(report) = "generate_general_report"
                   THEN ValueErrorText(missing_columns(report))
                   ELSE KeyErrorText(missing_columns(report)))
          /\ UNCHANGED <<output_path, temp_path, stdout>>
       \/ /\ missing_columns(report) = <<>>
          /\ output_path' = "bound"
          /\ temp_path' = IF Kind(report) = "generate_report"
                          THEN "bound" ELSE temp_path
          /\ pc' = IF Kind(report) = "generate_general_report"
                   THEN "checks" ELSE "compute"
          /\ stdout' = Append(stdout, <<"Gerando", RunSequence[report], <<>> >>)
          /\ UNCHANGED exception
    /\ UNCHANGED <<report, files, attempted, escaped>>
    /\ RunUnchanged

\* generate_general_report, lines 640-648: disk space, and the removal of
\* a document already at the final path
Checks ==
    /\ pc = "checks"
    /\ \E ok \in BOOLEAN :
         IF ok
         THEN /\ files' = [files EXCEPT ![report].output = "absent"]
              /\ pc' = "compute"
              /\ UNCHANGED exception
         ELSE /\ Raise(Unknown)
              /\ UNCHANGED files
    /\ UNCHANGED <<report, output_path, temp_path, attempted, escaped, stdout>>
    /\ RunUnchanged

\* the tables of the report (lines 230-365, 650-733, 958-1048)
Compute ==
    /\ pc = "compute"
    /\ \/ pc' = "open" /\ UNCHANGED exception
       \/ Raise(Unknown)
    /\ UNCHANGED <<report, output_path, temp_path, files, attempted, escaped, stdout>>
    /\ RunUnchanged

\* with PdfPages(path) as pdf / with pd.ExcelWriter(path) as writer: the
\* PDF file is created at the path here or at the first page, depending on
\* the library; the spreadsheet is written when the writer is closed
Open ==
    /\ pc = "open"
    /\ \E ok \in BOOLEAN :
         IF ok
         THEN /\ pc' = "write"
              /\ UNCHANGED exception
              /\ \/ UNCHANGED files
                 \/ /\ Kind(report) # "generate_consolidated_excel"
                    /\ files' = [files EXCEPT ![report][written_path(report)] = "partial"]
         ELSE /\ Raise(Unknown)
              /\ UNCHANGED files
    /\ UNCHANGED <<report, output_path, temp_path, attempted, escaped, stdout>>
    /\ RunUnchanged

\* the body of the with block: the title page and the content pages are
\* saved (lines 369-593, 737-844), the sheet is filled (lines 1052-1088).
\* When a step of the body raises, the with block closes the writer on the
\* way out: the PDF ends with the pages saved so far, the spreadsheet is
\* saved with what it holds, unless saving raises too.
Write ==
    /\ pc = "write"
    /\ \E ok \in BOOLEAN :
         IF ok
         THEN /\ pc' = "close"
              /\ UNCHANGED exception
              /\ files' = IF Kind(report) = "generate_consolidated_excel" THEN files
                          ELSE [files EXCEPT ![report][written_path(report)] = "partial"]
         ELSE /\ Raise(Unknown)
              /\ \/ files' = [files EXCEPT ![report][written_path(report)] = "partial"]
                 \/ /\ Kind(report) = "generate_consolidated_excel"
                    /\ UNCHANGED files
    /\ UNCHANGED <<report, output_path, temp_path, attempted, escaped, stdout>>
    /\ RunUnchanged

\* the end of the with block: the document is completed
Close ==
    /\ pc = "close"
    /\ \E ok \in BOOLEAN :
         IF ok
         THEN /\ files' = [files EXCEPT ![report][written_path(report)] = "complete"]
              /\ pc' = IF Kind(report) = "generate_report" THEN "rename" ELSE "finish"
              /\ UNCHANGED exception
         ELSE /\ files' = [files EXCEPT ![report][written_path(report)] = "partial"]
              /\ Raise(Unknown)
    /\ UNCHANGED <<report, output_path, temp_path, attempted, escaped, stdout>>
    /\ RunUnchanged

\* generate_report, line 596: os.rename(temp_path, output_path)
Rename ==
    /\ pc = "rename"
    /\ \E ok \in BOOLEAN :
         IF ok
         THEN /\ files' = [files EXCEPT ![report].output = files[report].temp,
                                        ![report].temp = "absent"]
              /\ pc' = "finish"
              /\ UNCHANGED exception
         ELSE /\ Raise(Unknown)
              /\ UNCHANGED files
    /\ UNCHANGED <<report, output_path, temp_path, attempted, escaped, stdout>>
    /\ RunUnchanged

\* the return to the main sequence, which goes on with the next report
Return ==
    /\ report' = report + 1
    /\ pc' = IF report = Len(RunSequence) THEN "end" ELSE "main"

\* print(f"Finalizado - {output_filename}") and the return
Finish ==
    /\ pc = "finish"
    /\ stdout' = Append(stdout, <<"Finalizado", RunSequence[report], <<>> >>)
    /\ Return
    /\ UNCHANGED <<output_path, temp_path, files, attempted, escaped, exception>>
    /\ RunUnchanged

\* try: os.remove(path) except: pass, for the paths that exist
removed(r, paths) ==
    {f \in [{"output", "temp"} -> FileStates] :
        \A path \in {"output", "temp"} :
           \/ f[path] = files[r][path]
           \/ path \in paths /\ exists(r, path) /\ f[path] = "absent"}

\* the except clauses (lines 599-608, 848-854, 1092-1098): the error is
\* printed, then the paths are removed.  generate_report and
\* generate_general_report read their local output_path, which is unbound
\* when the failure came before its assignment: the clause then raises
\* UnboundLocalError, which nothing in the main sequence catches.
Except ==
    /\ pc = "except"
    /\ stdout' = Append(stdout, <<"ERRO", RunSequence[report], exception>>)
    /\ exception' = "none"
    /\ IF output_path = "unbound"
       THEN /\ escaped' = "UnboundLocalError"
            /\ pc' = "crashed"
            /\ UNCHANGED <<report, files>>
       ELSE /\ \E f \in removed(report,
                         CASE output_path = "None" -> {}
                           [] Kind(report) = "generate_report" -> {"output", "temp"}
                           [] OTHER -> {"output"}) :
                  files' = [files EXCEPT ![report] =
                               [output |-> f["output"], temp |-> f["temp"]]]
            /\ Return
            /\ UNCHANGED escaped
    /\ UNCHANGED <<output_path, temp_path, attempted>>
    /\ RunUnchanged

NextRun ==
    \/ Call
    \/ Prepare
    \/ Checks
    \/ Compute
    \/ Open
    \/ Write
    \/ Close
    \/ Rename
    \/ Finish
    \/ Except

SpecRun == InitRun /\ [][NextRun]_vars

\* the run is over: the main sequence ended or an exception ended it
Terminated == pc \in {"end", "crashed"}

(* C9: each report's failure is isolated: whatever step of a report
   function fails, the function returns to the caller without raising, and
   every report later in the run sequence is still attempted: no exception
   leaves a report function, and a run that is over has attempted the
   general report, the spreadsheet, Tonelagem, Faturamento and Margem. *)
C9_FailureIsolated ==
    /\ escaped = "none"
    /\ Terminated => attempted = {RunSequence[r] : r \in Reports}

(* C10: for every output document (the per-metric PDFs, the general PDF and
   the consolidated spreadsheet) the final path never holds a partially
   written document: the content goes to a temporary path and the final
   path gets the document only by the rename that follows the writing. *)
C10_FinalPathNeverPartial ==
    \A r \in Reports : files[r].output # "partial"

\* what the run printed about a report
Printed(kind, r) ==
    \E i \in 1..Len(stdout) : stdout[i][1] = kind /\ stdout[i][2] = RunSequence[r]

(* C11: whenever generate_report ends in failure, at whatever step the
   failure occurs, afterwards neither the temporary file nor the final file
   of that report exists; whenever it ends in success, the final file
   exists and the temporary file does not. *)
C11_FilesAfterReport ==
    \A r \in Reports :
       Kind(r) = "generate_report" =>
          /\ Printed("ERRO", r) =>
                ~exists(r, "output") /\ ~exists(r, "temp")
          /\ Printed("Finalizado", r) =>
                exists(r, "output") /\ ~exists(r, "temp")

\* the position of the general report in the run sequence
Geral == CHOOSE r \in Reports : RunSequence[r] = "Geral"

(* C12: when the input table lacks one or more required columns,
   generate_general_report aborts that report (it never gets to the steps
   that write the document, so it produces no output file), the error
   message it prints lists every missing column by name, and the run goes
   on to the next report: the function returns and no exception stops the
   run at the general report. *)
C12_MissingColumns ==
    missing_columns(Geral) # <<>> =>
        /\ report = Geral => pc \in {"main", "prepare", "except", "crashed"}
        /\ \A i \in 1..Len(stdout) :
              (stdout[i][1] = "ERRO" /\ stdout[i][2] = "Geral"
                  /\ stdout[i][3] # Unknown) =>
                 /\ stdout[i][3][1] = "Colunas faltando no arquivo Excel: "
                 /\ \A k \in 1..Len(missing_columns(Geral)) :
                       \E j \in 2..Len(stdout[i][3]) :
                          stdout[i][3][j] = missing_columns(Geral)[k]
                 /\ report > Geral
                 /\ pc # "crashed"

\* a text cell that clean_currency cannot convert
FailsToParse(cell) == notna(cell) /\ cell.t = "str" /\ isna(clean_currency(cell))

\* the row has no value for the metric: the quantity, the net revenue or,
\* for the margin, the profit or the net revenue is missing or not a number
NoMetricValue(row, metric) ==
    CASE metric = "Tonelagem" -> isna(row.QTDE_REAL)
      [] metric = "Faturamento" -> isna(clean_currency(row.Fat_Liquido))
      [] metric = "Margem" -> \/ isna(clean_currency(row.Fat_Liquido))
                              \/ isna(clean_currency(row.Lucro_Prej))

(* C13: rows whose value for the selected metric is missing or cannot be
   parsed never contribute to any aggregate of ranking_vendas.generate_report:
   the total, the per-identity table and the weekly table are those of the
   sheet without these rows.  A value that fails to parse is logged with
   the raw text and dropped without aborting the report: the report ends in
   its except clause only where it does so without the unparseable rows. *)
C13_InvalidRowsExcluded ==
    (pc = "done" /\ script = "ranking_vendas") =>
        LET valid == SelectSeq(sheet, LAMBDA row : ~NoMetricValue(row, metric_name))
            parsed == SelectSeq(sheet, LAMBDA row : ~FailsToParse(row.Fat_Liquido)
                                                     /\ ~FailsToParse(row.Lucro_Prej))
            kept == gr_etapa2(gr_etapa1(gr_read(valid), metric_name), metric_name)
        IN  /\ \A i \in 1..Len(df) : ~NoMetricValue(df[i], metric_name)
            /\ ~raised =>
                  \E out \in gr_tables(kept, metric_name, items_per_page) :
                     /\ out.total_metric = total_metric
                     /\ out.aggregated = aggregated
                     /\ out.time_series_agg = time_series_agg
            /\ metric_name \in {"Faturamento", "Margem"} =>
                  \A i \in 1..Len(sheet) :
                     FailsToParse(sheet[i].Fat_Liquido) =>
                        \E j \in 1..Len(stdout) :
                           stdout[j] = <<"Valor não convertido: ", sheet[i].Fat_Liquido.s>>
            /\ raised => Raised \in generate_report(parsed, metric_name, items_per_page)

C13_Witness ==
    /\ Ranking
    /\ metric_name = "Faturamento"
    /\ Len(sheet) = 2
    /\ FailsToParse(sheet[1].Fat_Liquido)
    /\ Len(df) = 1
    /\ Len(sorted_df) = 1
    /\ stdout = << <<"Valor não convertido: ", Unparseable>> >>

\* clean_currency returned from a call with a string
ReturnedForString == pc = "cc_return" /\ notna(value) /\ value.t = "str"

(* C14: for every string input clean_currency never raises: it returns a
   number or the missing marker.  When the cleaned text is not a valid
   number, as for "abc", it prints a diagnostic that contains the original
   input and returns the missing marker; otherwise it prints nothing. *)
C14_NeverRaises ==
    ReturnedForString =>
        /\ ret = None \/ IsFloat(ret)
        /\ IF PyFloat(cc_cleaned(value.s)) = ValueError
           THEN /\ ret = None
                /\ stdout = << <<"Valor não convertido: ", value.s>> >>
           ELSE IsFloat(ret) /\ stdout = <<>>
        /\ value = Str(Unparseable) => ret = None /\ stdout # <<>>

C14_Witness ==
    /\ ReturnedForString
    /\ value = Str(Unparseable)
    /\ ret = None
    /\ stdout = << <<"Valor não convertido: ", Unparseable>> >>

---------------------------------------------------------------------------
(* The margins of the general report and of the consolidated spreadsheet *)

General == script = "generate_general_report" /\ ~raised
Excel == script = "generate_consolidated_excel" /\ ~raised

\* the two slices of a sorted table of the general report, lines 680-681
Top20(sorted) == SubSeq(sorted, 1, IF Len(sorted) < TOP_N THEN Len(sorted) ELSE TOP_N)
Resto(sorted) == SubSeq(sorted, TOP_N + 1, Len(sorted))

\* C15: every margin computed outside the per-metric report is 0 whenever
\* the summed net revenue it divides by is <= 0, a negative sum included:
\* the MARGEM_PERC of every group and every product of the consolidated
\* spreadsheet, and the per-product, top-20, others and overall margins of
\* the general report.
C15_MarginZeroWithoutRevenue ==
    /\ Excel =>
          \A k \in 1..Len(final_df) :
             FLe(final_df[k].FATURAMENTO_RS, Zero) => final_df[k].MARGEM_PERC = Zero
    /\ General =>
          LET chart == pie_data["Margem"]
              fat(rows) == FSum(Column(rows, "Fat_Liquido"))
          IN  /\ \A k \in 1..Len(chart.sorted_df) :
                    FLe(chart.sorted_df[k].Fat_Liquido, Zero) =>
                        chart.sorted_df[k].metric = Zero
              /\ FLe(fat(Top20(chart.sorted_df)), Zero) => chart.display_values[1] = Zero
              /\ FLe(fat(Resto(chart.sorted_df)), Zero) => chart.display_values[2] = Zero
              /\ FLe(fat(df), Zero) => chart.total = Zero

---------------------------------------------------------------------------
(* The proportion chart of a content page *)

\* a page whose proportion chart the description allows: no entry with a
\* negative value, and values that sum to more than 0
PieAllowed(chunk) ==
    /\ \A k \in 1..Len(chunk) : FLe(Zero, chunk[k].metric)
    /\ FLt(Zero, FSum(Column(chunk, "metric")))

\* C16: on every content page of the three scripts the proportion chart is
\* drawn only when no entry of the page is negative and the values of the
\* page sum to more than 0, a text replaces it otherwise, and in both cases
\* the tables of the pages hold every ranked entry.
C16_PieOnlyWhenPositive ==
    (~raised /\ script \in {"ranking_vendas", "relatorio_analitico_vendas",
                            "ranking_chart_kgs"}) =>
        /\ Len(charts) = Len(pages)
        /\ \A p \in 1..Len(pages) : charts[p] = "pie" => PieAllowed(pages[p])
        /\ Concatenation(pages) = sorted_df

---------------------------------------------------------------------------
(* The supporting count of a ranked entry *)

\* the kept rows in the group of rows an entry of the ranking was summed from
RowsOfEntry(entry) ==
    SelectSeq(df_combined,
              LAMBDA r : /\ r.ID_AGRUPADO = entry.GRUPO_ID
                         /\ r.DESCRICAO_AGRUPADA = entry.DESCRICAO)

RECURSIVE SumOfCounts(_)
SumOfCounts(entries) ==
    IF entries = <<>> THEN 0
    ELSE Head(entries).Qtde_de_vendas + SumOfCounts(Tail(entries))

\* C17: the 'Qtde de vendas' of every ranked entry is the number of kept
\* rows that contribute to the value of that entry, so that the counts of
\* all ranked entries sum to the number of kept rows.
C17_CountOfContributingRows ==
    Ranking =>
        /\ \A k \in 1..Len(sorted_df) :
              sorted_df[k].Qtde_de_vendas = Len(RowsOfEntry(sorted_df[k]))
        /\ SumOfCounts(sorted_df) = Len(df_combined)

---------------------------------------------------------------------------
(* Specification of the metric loop, ranking_vendas.py lines 1107-1137: the
   three metric reports one after another in one process, and the loop
   taken a second time over the same file *)

\* lines 1107-1111
metrics == <<"Tonelagem", "Faturamento", "Margem">>

\* the number of times the loop is taken
Passes == 2

\* The pandas and numpy of a process are functions: of the outcomes a call
\* may have (the arrangement of tied entries, the fate of an empty frame),
\* the build fixes the one it has.  Two builds are followed.
Builds == {"first", "second"}

Pick(outcomes, b) ==
    LET one == CHOOSE o \in outcomes : TRUE
    IN  IF b = "first" \/ outcomes = {one} THEN one
        ELSE CHOOSE o \in outcomes : o # one

read_excel_kept(file, frame) == IF frame = <<>> THEN file ELSE frame

\* lines 200-201: every call reads the file again; the data frame of the
\* call before is a local of that call and is not used
read_excel(file, frame) == file

InitLoop ==
    /\ \E k \in 1..MaxRows : sheet \in [1..k -> Rows]
    /\ items_per_page = ITEMS_PER_PAGE
    /\ NoReport
    /\ NoRun
    /\ history = <<>>
    /\ build \in Builds
    /\ value = None
    /\ ret = None
    /\ stdout = <<>>
    /\ pc = "loop"

\* one iteration of `for metric in metrics: generate_report(...)`
MetricLoop ==
    /\ pc = "loop"
    /\ Len(history) < Passes * Len(metrics)
    /\ LET metric == metrics[(Len(history) % Len(metrics)) + 1]
           out == Pick(generate_report(read_excel(sheet, df), metric, items_per_page),
                       build)
       IN  /\ Tables("ranking_vendas", metric, out)
           /\ stdout' = stdout \o gr_printed(read_excel(sheet, df), metric)
           /\ history' = Append(history, [metric_name |-> metric, out |-> out])
    /\ UNCHANGED <<pc, sheet, items_per_page, build, currency_vars, run_vars>>

NextLoop == MetricLoop

SpecLoop == InitLoop /\ [][NextLoop]_vars

\* C18: running the reports again on the same sheet and configuration, the
\* three metric reports one after another in one process included, gives
\* identical aggregated and ranked tables: every call has the tables that
\* the first call of its metric had, which are those of a call that no
\* other call came before.
C18_RunsAreIndependent ==
    /\ \A i, j \in 1..Len(history) :
          history[i].metric_name = history[j].metric_name =>
              history[i].out = history[j].out
    /\ \A i \in 1..Len(history) :
          history[i].out = Pick(generate_report(sheet, history[i].metric_name,
                                                items_per_page), build)

\* the loop was taken twice over a sheet of which the revenue report keeps
\* fewer rows than the tonnage report, and every call made its tables
C18_Witness ==
    /\ Len(history) = Passes * Len(metrics)
    /\ \A i \in 1..Len(history) : history[i].out.sorted_df # <<>>
    /\ Len(history[2].out.df) < Len(history[1].out.df)
    /\ history[4].out.aggregated = history[1].out.aggregated

---------------------------------------------------------------------------
(* The separators and the sign of clean_currency *)

\* the number a text stands for, with the sign clean_currency gives it
Signed(text, s) ==
    IF PyFloat(text) = ValueError THEN None
    ELSE cc_sign(PyFloat(text), cc_negative(cc_stripped(s)))

\* C19: for a string with commas and no dot, clean_currency takes the comma
\* for the decimal mark when exactly two digits follow the last comma, and
\* otherwise takes every comma for a thousands separator: "1,234" parses to
\* 1234 and "1,234,567" to 1234567.
C19_CommaWithoutDot ==
    (ReturnedForString /\ Contains(value.s, ",") /\ ~Contains(value.s, ".")) =>
        LET c == cc_unsigned(cc_stripped(value.s))
        IN  /\ IF LastPartLen(c, ",") = 2
               THEN ret = Signed(ReplaceChar(c, ",", "."), value.s)
               ELSE ret = Signed(RemoveChar(c, ","), value.s)
            /\ value = Str(DocThousands) => ret = Float(1234, 1)
            /\ value = Str(DocMillions) => ret = Float(1234567, 1)
            /\ value = Str(DocCents) => ret = Float(123456, 100)

\* C20: for a string that parses, clean_currency returns the negated
\* absolute value exactly when the text, after the removal of the currency
\* symbol and of the surrounding whitespace, starts with a minus sign or is
\* wrapped in parentheses, and the absolute value in every other case: a
\* lone '(' or ')' and a minus sign after the first character do not make
\* the result negative.
C20_SignOfResult ==
    (ReturnedForString /\ PyFloat(cc_cleaned(value.s)) # ValueError) =>
        LET v == cc_stripped(value.s)
            num == PyFloat(cc_cleaned(value.s))
        IN  IF startswith(v, "-") \/ (startswith(v, "(") /\ endswith(v, ")"))
            THEN ret = FNeg(FAbs(num))
            ELSE ret = FAbs(num)

---------------------------------------------------------------------------
(* The product-group tables *)

\* every code of the table is listed by one group, and the inverse
\* dictionary gives it the name of that group
OneGroupPerCode(table) ==
    \A code \in GroupCodes(table) :
       \A i, j \in 1..Len(table) :
          (Lists(table[i], code) /\ Lists(table[j], code)) =>
              /\ i = j
              /\ InvertGroups(table)[code] = table[i].name

\* C21: in the product-group tables of generate_report and of
\* generate_consolidated_excel every product code is a member of at most
\* one group, so the inverse code-to-group map never overwrites the group of
\* a code with another group name: the group of every row read is the one
\* group that lists its code.
C21_OneGroupPerCode ==
    /\ (pc = "start" /\ sheet = <<>>) =>
          OneGroupPerCode(product_groups) /\ OneGroupPerCode(product_groups_excel)
    /\ Ranking =>
          \A i \in 1..Len(df) : \A g \in 1..Len(product_groups) :
             Lists(product_groups[g], df[i].CODPRODUTO.i) =>
                df[i].GRUPO = Text(product_groups[g].name)
    /\ Excel =>
          \A i \in 1..Len(df) : \A g \in 1..Len(product_groups_excel) :
             Lists(product_groups_excel[g], df[i].CODPRODUTO.i) =>
                df[i].GRUPO = Text(product_groups_excel[g].name)

\* a report read two products of one group
C21_Witness ==
    /\ Ranking
    /\ Len(df) = 2
    /\ df[1].CODPRODUTO # df[2].CODPRODUTO
    /\ notna(df[1].GRUPO)
    /\ df[1].GRUPO = df[2].GRUPO

---------------------------------------------------------------------------
(* The margin of relatorio_analitico_vendas.generate_report *)

Analitico == pc = "done" /\ script = "relatorio_analitico_vendas" /\ ~raised

\* the rows of the sheet that the margin report keeps, with their parsed
\* profit and net revenue
MarginRows ==
    [i \in 1..Len(SelectSeq(sheet, LAMBDA r : notna(r.Margem))) |->
        [SelectSeq(sheet, LAMBDA r : notna(r.Margem))[i]
            EXCEPT !.Fat_Liquido = clean_currency(@),
                   !.Lucro_Prej = clean_currency(@)]]

\* C22: in relatorio_analitico_vendas.generate_report with metric Margem the
\* title-page total and the ranked value of each product are ratios of
\* sums, 100 * (summed profit) / (summed net revenue), never a sum or an
\* average of the margins of the rows.
C22_AnaliticoMarginFromSums ==
    (Analitico /\ metric_name = "Margem") =>
        /\ IsMarginOfSums(total_metric, MarginRows)
        /\ \A k \in 1..Len(sorted_df) :
              IsMarginOfSums(sorted_df[k].metric,
                             SelectSeq(MarginRows,
                                       LAMBDA r : r.CODPRODUTO = sorted_df[k].CODPRODUTO))

---------------------------------------------------------------------------
(* Negative tonnage *)

\* the code and the quantity of the rows of a frame with a negative quantity
NegativeRows(frame) ==
    LET negative == SelectSeq(frame, LAMBDA r : /\ notna(r.QTDE_REAL)
                                                /\ FLt(r.QTDE_REAL, Zero))
    IN  [i \in 1..Len(negative) |-> <<negative[i].CODPRODUTO, negative[i].QTDE_REAL>>]

\* C23: in every script that ranks tonnage the rows with a negative
\* QTDE REAL are kept with their sign through the filter, the aggregation
\* and the ranking: the kept rows hold every negative row of the sheet, and
\* the value of every ranked entry is the signed sum of its rows.
C23_NegativeTonnageKept ==
    (Ranked /\ metric_name = "Tonelagem"
            /\ script \in {"ranking_vendas", "relatorio_analitico_vendas",
                           "ranking_chart_kgs"}) =>
        /\ NegativeRows(df) = NegativeRows(sheet)
        /\ \A k \in 1..Len(sorted_df) :
              LET entry == sorted_df[k]
                  of_code == SelectSeq(df, LAMBDA r : r.CODPRODUTO = entry.CODPRODUTO)
              IN  CASE script = "ranking_vendas" ->
                         entry.metric = FSum(Column(RowsOfEntry(entry), "QTDE_REAL"))
                    [] script = "relatorio_analitico_vendas" ->
                         entry.metric = FSum(Column(of_code, "QTDE_REAL"))
                    [] script = "ranking_chart_kgs" ->
                         entry.metric =
                            round3(FSum(Column(
                               SelectSeq(of_code, LAMBDA r : r.DESCRICAO = entry.DESCRICAO),
                               "QTDE_REAL")))

---------------------------------------------------------------------------
(* The week key *)

\* the rows and the weekly table of the two reports with a weekly chart,
\* each with the field that names the product or the identity
Weekly ==
    IF script = "ranking_vendas"
    THEN [rows |-> df_combined, id |-> "ID_AGRUPADO"]
    ELSE [rows |-> df, id |-> "CODPRODUTO"]

\* C24: the week key of a row is the Monday of the calendar week that holds
\* the date of the row: the key is a Monday, it is not later than the date,
\* and the date is at most 6 days after it; two dates have the same key
\* exactly when they are in the same week from Monday to Sunday.  Day 0 of
\* the calendar of the model is a Monday.
C24_WeekKeyIsMonday ==
    (Ranked /\ script \in {"ranking_vendas", "relatorio_analitico_vendas"}) =>
        /\ \A k \in 1..Len(time_series_agg) : time_series_agg[k].SEMANA.day % 7 = 0
        /\ \A i \in 1..Len(Weekly.rows) :
              LET row == Weekly.rows[i]
                  points == {k \in 1..Len(time_series_agg) :
                               /\ time_series_agg[k][Weekly.id] = row[Weekly.id]
                               /\ time_series_agg[k].SEMANA.day <= row.DATA.day
                               /\ row.DATA.day <= time_series_agg[k].SEMANA.day + 6}
              IN  notna(row.DATA) =>
                     /\ Cardinality(points) = 1
                     /\ \A k \in points : time_series_agg[k].SEMANA = SEMANA(row.DATA)
        /\ \A i, j \in 1..Len(Weekly.rows) :
              LET a == Weekly.rows[i].DATA
                  b == Weekly.rows[j].DATA
              IN  (notna(a) /\ notna(b)) =>
                     (SEMANA(a) = SEMANA(b) <=> a.day \div 7 = b.day \div 7)

\* a Sunday and the Monday after it, sold under one identity, are two
\* points of the weekly table
C24_Witness ==
    /\ Ranked
    /\ script = "ranking_vendas"
    /\ \E i, j \in 1..Len(df_combined) :
          /\ df_combined[i].ID_AGRUPADO = df_combined[j].ID_AGRUPADO
          /\ df_combined[i].DATA = Date(6)
          /\ df_combined[j].DATA = Date(7)
    /\ Len(time_series_agg) = 2
    /\ time_series_agg[1].SEMANA = Date(0)
    /\ time_series_agg[2].SEMANA = Date(7)

---------------------------------------------------------------------------
(* The money columns of the report functions of ranking_vendas.py *)

\* every money cell of the frame is a parsed number
Parsed(frame) ==
    \A i \in 1..Len(frame) :
       IsFloat(frame[i].Fat_Liquido) /\ IsFloat(frame[i].Lucro_Prej)

\* C25: in every report function of ranking_vendas.py the net revenue and
\* the profit pass through clean_currency before a sum, a ratio or a
\* ranking is computed from them: the frames that generate_report and
\* generate_consolidated_excel aggregate hold parsed numbers only, and the
\* general report of a sheet with rows is made from the parsed columns.
C25_CleanedBeforeAggregation ==
    /\ (Ranking /\ metric_name \in {"Faturamento", "Margem"}) => Parsed(df)
    /\ Excel => Parsed(df)
    /\ (pc = "done" /\ script = "generate_general_report" /\ sheet # <<>>) =>
          /\ ~raised
          /\ pie_data["Faturamento"].total
                = FSum([i \in 1..Len(sheet) |-> clean_currency(sheet[i].Fat_Liquido)])

---------------------------------------------------------------------------
(* The rows a metric report keeps, and its total *)

\* the rows of the sheet whose value for the metric is present and parses
ValidFor(metric) ==
    SelectSeq(sheet,
              LAMBDA r : CASE metric = "Tonelagem" -> notna(r.QTDE_REAL)
                           [] metric = "Faturamento" -> notna(clean_currency(r.Fat_Liquido))
                           [] metric = "Margem" ->
                                 /\ notna(clean_currency(r.Fat_Liquido))
                                 /\ notna(clean_currency(r.Lucro_Prej)))

\* the kept rows that are in a ranked entry
RankedRows ==
    SelectSeq(df_combined,
              LAMBDA r : \E k \in 1..Len(sorted_df) :
                            /\ r.ID_AGRUPADO = sorted_df[k].GRUPO_ID
                            /\ r.DESCRICAO_AGRUPADA = sorted_df[k].DESCRICAO)

\* C26: a row whose value for the selected metric is present and parses is
\* never left out of the ranking of that metric because of another column:
\* the report keeps every such row (in the Faturamento report, every row
\* with a valid net revenue), and the title-page total is what the ranked
\* entries account for: for Tonelagem and Faturamento the sum of the ranked
\* values, for Margem the margin of the rows of the ranked entries.
C26_NoRowLostToAnotherColumn ==
    Ranking =>
        /\ Len(df) = Len(ValidFor(metric_name))
        /\ RankedRows = df_combined
        /\ metric_name \in {"Tonelagem", "Faturamento"} =>
              total_metric = FSum(Column(sorted_df, "metric"))
        /\ metric_name = "Margem" => IsMarginOfSums(total_metric, RankedRows)

---------------------------------------------------------------------------
(* Specification of the main sequence over one sheet, ranking_vendas.py
   lines 1113-1137: the general report, the consolidated spreadsheet, then
   the metric loop *)

InitMain ==
    /\ \E k \in 1..MaxRows : sheet \in [1..k -> Rows]
    /\ items_per_page = ITEMS_PER_PAGE
    /\ NoReport
    /\ NoRun
    /\ history = <<>>
    /\ build \in Builds
    /\ value = None
    /\ ret = None
    /\ stdout = <<>>
    /\ pc = "general"

\* lines 1114-1118
MainGeneralReport ==
    /\ pc = "general"
    /\ Tables("generate_general_report", "Geral",
              Pick(generate_general_report(sheet), build))
    /\ pc' = "excel"
    /\ UNCHANGED <<stdout, sheet, items_per_page, currency_vars, run_vars, loop_vars>>

\* lines 1121-1125
MainConsolidatedExcel ==
    /\ pc = "excel"
    /\ Tables("generate_consolidated_excel", "Excel",
              Pick(generate_consolidated_excel(sheet), build))
    /\ stdout' = stdout \o gr_printed(sheet, "Faturamento")
    /\ pc' = "loop"
    /\ UNCHANGED <<sheet, items_per_page, currency_vars, run_vars, loop_vars>>

NextMain ==
    \/ MainGeneralReport
    \/ MainConsolidatedExcel
    \/ MetricLoop

SpecMain == InitMain /\ [][NextMain]_vars

\* the identity of an entry of the spreadsheet: the group, or the code
IdentityOf(entry) ==
    IF entry.CODPRODUTO = Text("VÁRIOS PROD.") THEN entry.DESCRICAO
    ELSE PyStr(entry.CODPRODUTO)

\* the ranked table of the first call of the metric loop for a metric
RankingOf(metric) ==
    history[CHOOSE i \in 1..Len(history) :
               /\ history[i].metric_name = metric
               /\ \A j \in 1..(i - 1) : history[j].metric_name # metric].out.sorted_df

\* C27: for every identity the net revenue, the tonnage and the number of
\* transactions of the consolidated spreadsheet are the values that the
\* Faturamento and Tonelagem rankings of the same run give that identity:
\* the two outputs keep the same rows and group them by the same
\* identities.
C27_SpreadsheetMatchesRankings ==
    (final_df # <<>> /\ Len(history) >= 2
        /\ ~history[1].out.raised /\ ~history[2].out.raised) =>
        \A metric \in {"Tonelagem", "Faturamento"} :
           LET ranking == RankingOf(metric)
               column == IF metric = "Tonelagem" THEN "TONELAGEM_KG" ELSE "FATURAMENTO_RS"
           IN  /\ \A e \in 1..Len(final_df) :
                     \E k \in 1..Len(ranking) :
                        /\ ranking[k].GRUPO_ID = IdentityOf(final_df[e])
                        /\ ranking[k].metric = final_df[e][column]
                        /\ ranking[k].Qtde_de_vendas = final_df[e].QTDE_VENDAS
               /\ \A k \in 1..Len(ranking) :
                     \E e \in 1..Len(final_df) :
                        IdentityOf(final_df[e]) = ranking[k].GRUPO_ID

---------------------------------------------------------------------------
(* format_currency, ranking_vendas.py lines 92-96 (the definition of lines
   35-37 is replaced by it), and the round trip through clean_currency *)

DigitChar(k) ==
    CASE k = 0 -> "0" [] k = 1 -> "1" [] k = 2 -> "2" [] k = 3 -> "3"
      [] k = 4 -> "4" [] k = 5 -> "5" [] k = 6 -> "6" [] k = 7 -> "7"
      [] k = 8 -> "8" [] k = 9 -> "9"

\* the decimal digits of a natural number
RECURSIVE Digits(_)
Digits(k) ==
    IF k < 10 THEN <<DigitChar(k)>>
    ELSE Digits(k \div 10) \o <<DigitChar(k % 10)>>

\* the "," option of the format: groups of three digits from the right
RECURSIVE Grouped(_)
Grouped(ds) ==
    IF Len(ds) <= 3 THEN ds
    ELSE Grouped(SubSeq(ds, 1, Len(ds) - 3)) \o <<",">>
            \o SubSeq(ds, Len(ds) - 2, Len(ds))

\* the number a Python int or float stands for
AsFloat(v) == IF v.t = "int" THEN Float(v.i, 1) ELSE v

\* f"{x:,.2f}" for x >= 0: two decimals, rounded, thousands separated
format_2f(x) ==
    LET r == round2(x)
        cents == (r.n * 100) \div r.d
    IN  Grouped(Digits(cents \div 100)) \o <<".">>
           \o <<DigitChar((cents % 100) \div 10), DigitChar(cents % 10)>>

\* line 95: .replace(",", "X").replace(".", ",").replace("X", ".")
swap_separators(s) == ReplaceChar(ReplaceChar(ReplaceChar(s, ",", "X"), ".", ","), "X", ".")

format_currency_us(v) ==
    LET formatted == <<"R", "$">> \o format_2f(FAbs(AsFloat(v)))
    IN  IF AsFloat(v).n < 0 THEN <<"-">> \o formatted ELSE formatted

\* lines 92-96
format_currency(v) ==
    LET formatted == swap_separators(<<"R", "$">> \o format_2f(FAbs(AsFloat(v))))
    IN  IF AsFloat(v).n < 0 THEN <<"-">> \o formatted ELSE formatted

MaxCents == 150
MaxUnits == 12
LargeCents == {99999, 100000, 123456, 1234560, 100000000, 123456750, 200000050}

\* amounts with at most two decimals: floats, and Python ints
Amounts ==
    {Float(c, 100) : c \in (-MaxCents)..MaxCents}
       \cup {Float(s * c, 100) : s \in {-1, 1}, c \in LargeCents}
       \cup {PyInt(i) : i \in (-MaxUnits)..MaxUnits}

InitRoundTrip ==
    /\ value \in Amounts
    /\ ret = None
    /\ stdout = <<>>
    /\ pc = "fc_call"
    /\ sheet = <<>>
    /\ items_per_page = ITEMS_PER_PAGE
    /\ NoReport
    /\ NoRun
    /\ NoLoop

FormatCurrencyCall ==
    /\ pc = "fc_call"
    /\ ret' = Str(format_currency(value))
    /\ pc' = "fc_return"
    /\ UNCHANGED <<value, stdout, report_vars, run_vars, loop_vars>>

\* clean_currency applied to the text format_currency returned
CleanFormattedCall ==
    /\ pc = "fc_return"
    /\ ret' = clean_currency(ret)
    /\ stdout' = stdout \o clean_currency_print(ret)
    /\ pc' = "rt_return"
    /\ UNCHANGED <<value, report_vars, run_vars, loop_vars>>

NextRoundTrip ==
    \/ FormatCurrencyCall
    \/ CleanFormattedCall

SpecRoundTrip == InitRoundTrip /\ [][NextRoundTrip]_vars

\* C28: format_currency and clean_currency round-trip: for every amount x
\* with at most two decimal places, negative, zero or positive,
\* clean_currency(format_currency(x)) is x and nothing is printed.
C28_RoundTrip ==
    pc = "rt_return" => /\ ret = AsFloat(value)
                        /\ stdout = <<>>

\* a negative amount of more than a million went through both functions
C28_Witness ==
    /\ pc = "rt_return"
    /\ value = Float(-123456750, 100)
    /\ ret = value

---------------------------------------------------------------------------
(* The titles of the content pages *)

\* C29: the title of every content page, 'Ranking de Produtos a-b', names
\* exactly the positions shown on that page: a is the position of the
\* page's first entry and b the position of its last entry, the ranges of
\* consecutive pages are adjacent (next a = previous b + 1), the first page
\* starts at 1 and the last page ends at N.
C29_TitleNamesThePositions ==
    pc = "pages_done" =>
        /\ Len(titles) = Len(pages)
        /\ \A p \in 1..Len(pages) :
              /\ titles[p].a = pages[p][1].Posicao
              /\ titles[p].b = pages[p][Len(pages[p])].Posicao
        /\ \A p \in 1..(Len(pages) - 1) : titles[p + 1].a = titles[p].b + 1
        /\ pages # <<>> => /\ titles[1].a = 1
                           /\ titles[Len(pages)].b = Len(sorted_df)

\* eight entries on pages of three: the titles are 1-3, 4-6 and 7-8
C29_Witness ==
    /\ pc = "pages_done"
    /\ Len(sorted_df) = 8
    /\ items_per_page = 3
    /\ titles = << [a |-> 1, b |-> 3], [a |-> 4, b |-> 6], [a |-> 7, b |-> 8] >>

---------------------------------------------------------------------------
(* The proportion charts of the general report on a sheet of up to
   MaxProducts products, more than the TOP_N of the first slice *)

MaxProducts == 22
FirstCode == 100

\* how the values of the products of a sheet lie: all different; two products
\* with the same value; positive, zero and negative values
Shapes == {"rising", "tied", "mixed"}

Weight(i, shape) ==
    CASE shape = "rising" -> i
      [] shape = "tied" -> IF i = 3 THEN 2 ELSE i
      [] shape = "mixed" -> 5 - i

\* one sale of product i: w kg, net revenue 10 w, profit w * w
ProductRow(i, shape) ==
    [BaseRow(FirstCode + i) EXCEPT !.QTDE_REAL = Float(Weight(i, shape), 1),
                                   !.Fat_Liquido = Float(10 * Weight(i, shape), 1),
                                   !.Lucro_Prej = Float(Weight(i, shape) * Weight(i, shape), 1)]

\* a second sale of the first product: none, a large one, one without money
SecondSales ==
    { <<>>,
      << [BaseRow(FirstCode + 1) EXCEPT !.QTDE_REAL = Float(1000, 1),
                                        !.Fat_Liquido = Float(5000, 1),
                                        !.Lucro_Prej = Float(-100, 1)] >>,
      << [BaseRow(FirstCode + 1) EXCEPT !.Fat_Liquido = NaN, !.Lucro_Prej = NaN] >> }

InitGeneral ==
    /\ \E n \in 1..MaxProducts, shape \in Shapes, second \in SecondSales :
          sheet = [i \in 1..n |-> ProductRow(i, shape)] \o second
    /\ items_per_page = ITEMS_PER_PAGE
    /\ NoReport
    /\ NoRun
    /\ NoLoop
    /\ value = None
    /\ ret = None
    /\ stdout = <<>>
    /\ pc = "start"

NextGeneral == GenerateGeneralReport

SpecGeneral == InitGeneral /\ [][NextGeneral]_vars

\* the product codes of the entries k of a sorted table with k in a range
CodesAt(sorted, range_) == {sorted[k].CODPRODUTO : k \in range_ \cap (1..Len(sorted))}

\* the sum of a column over the rows of the report's frame whose product is
\* in a set of codes
SumOver(codes, column) ==
    FSum(Column(SelectSeq(df, LAMBDA r : r.CODPRODUTO \in codes), column))

\* C30: in the general report the 'Top 20' and 'others' wedges partition
\* the per-product ranking: the top wedge covers the first min(20, N)
\* products in descending order, the other wedge covers the remaining
\* max(0, N - 20) products, no product is in both or in neither, and for
\* Tonelagem and Faturamento the displayed total is the sum of the two
\* wedges.
C30_WedgesPartitionTheRanking ==
    (pc = "done" /\ General) =>
        \A m \in Metrics :
           LET chart == pie_data[m]
               N == Len(chart.sorted_df)
               products == {df[i].CODPRODUTO : i \in 1..Len(df)}
               top == CodesAt(chart.sorted_df, 1..TOP_N)
               others == CodesAt(chart.sorted_df, (TOP_N + 1)..N)
               column == CASE m = "Tonelagem" -> "QTDE_REAL"
                           [] m = "Faturamento" -> "Fat_Liquido"
                           [] m = "Margem" -> "Lucro_Prej"
           IN  /\ N = Cardinality(products)
               /\ top \cup others = products
               /\ top \cap others = {}
               /\ Cardinality(top) = Min(TOP_N, N)
               /\ Cardinality(others) = IF N > TOP_N THEN N - TOP_N ELSE 0
               /\ chart.resto_count = Cardinality(others)
               /\ \A j, k \in 1..N :
                     (j < k /\ notna(chart.sorted_df[k].metric)) =>
                         /\ notna(chart.sorted_df[j].metric)
                         /\ FLe(chart.sorted_df[k].metric, chart.sorted_df[j].metric)
               /\ m # "Margem" =>
                     /\ chart.values = <<SumOver(top, column), SumOver(others, column)>>
                     /\ chart.total = FAdd(chart.values[1], chart.values[2])
               /\ m = "Margem" =>
                     chart.values = <<FAbs(SumOver(top, column)),
                                      FAbs(SumOver(others, column))>>

\* twenty-two products: twenty in the top wedge, two in the other, and the
\* other wedge is not empty
C30_Witness ==
    /\ pc = "done"
    /\ General
    /\ Len(pie_data["Tonelagem"].sorted_df) = 22
    /\ pie_data["Tonelagem"].resto_count = 2
    /\ pie_data["Tonelagem"].values[2] # Zero
    /\ pie_data["Faturamento"].total
          = FAdd(pie_data["Faturamento"].values[1], pie_data["Faturamento"].values[2])

=============================================================================
